---------------------------- MODULE Spec2Model ----------------------------
(***************************************************************************)
(* Model of the pyjimeng client: the adaptive job poller                   *)
(* (pyjimeng/poller.py, SmartPoller), the request gateway                  *)
(* (pyjimeng/core.py, request), the image uploads of a composition         *)
(* (pyjimeng/images.py, _upload_image and _upload_buffer), the client     *)
(* with its session tokens (pyjimeng/service.py, JimengClient),            *)
(* generate_images from its poll on (pyjimeng/images.py), the lifecycle    *)
(* of the service facade (pyjimeng/jimeng_service.py), the session check   *)
(* (pyjimeng/core.py, get_token_live_status), the request signer           *)
(* (pyjimeng/aws_signature.py, create_signature) with its two callers,     *)
(* generate_image_composition around its uploads (pyjimeng/images.py),     *)
(* the commands of the plugin (main.py, JimengServicePlugin), the          *)
(* session list of the client, and _choose_token running beside another    *)
(* thread that shortens the list (pyjimeng/service.py).                    *)
(*                                                                         *)
(* Time is counted in tenths of a second, so that the 1.2x and 1.5x        *)
(* multipliers of the poll interval stay integers.  Lengths given in       *)
(* seconds (poll_interval, timeout_seconds, the latency of a fetch) are    *)
(* whole seconds and are multiplied by 10 where they meet the clock.       *)
(*                                                                         *)
(* The exit reasons of the poller are Chinese string literals in the       *)
(* source; the model writes them in ASCII:                                 *)
(*   "completed"        poller.py:106  (status 10 or 50)                   *)
(*   "failed"           poller.py:106  (status 30)                         *)
(*   "reached expected" poller.py:108                                      *)
(*   "stable"           poller.py:110                                      *)
(*   "round limit"      poller.py:112                                      *)
(*   "timeout partial"  poller.py:114                                      *)
(***************************************************************************)
EXTENDS Integers, Sequences, FiniteSets, TLC

VARIABLES
    \* ---- SmartPoller: configuration and the locals of poll() ----
    self,             \* the SmartPoller's fields set by __init__
    pc,               \* position of poll(): idle | loop | sleep | returned | raised
    poll_count,       \* local poll_count
    clock,            \* time.time() - start, in tenths of a second
    elapsed,          \* local elapsed (tenths), taken right after the fetch
    last_item_count,  \* local last_item_count
    stable_rounds,    \* local stable_rounds (the stability counter)
    status,           \* local status: the PollingStatus of the last fetch
    data,             \* local data: the payload of the last fetch
    interval,         \* local interval (tenths) computed for the coming sleep
    result,           \* what poll() returned: <<PollingResult, data>>, or None
    exc,              \* the exception poll() ended with, or None
    items_seen,       \* history: item_count of every fetch of this run
    slept,            \* history: the sleeps of this run, in tenths
    \* ---- core.request: the parameters and locals of one call ----
    rpc,              \* position of request(): idle | attempt | delay | returned | raised
    stream,           \* parameter stream
    max_retries,      \* local max_retries = RETRY_CONFIG["MAX_RETRY_COUNT"]
    retries,          \* local retries
    resp,             \* outcome of the last SESSION.request: a response,
                      \* RequestException, or NoResponse before the first
    rret,             \* what request() returned, or None
    rexc,             \* the exception request() ended with, or None
    attempts,         \* history: number of SESSION.request calls of this call
    delays,           \* history: number of time.sleep(delay) of this call
    \* ---- images: the uploads of generate_image_composition ----
    upc,              \* position: idle | normalize | ticket | apply | put |
                      \* commit | uploaded | raised
    images,           \* parameter images: the sources to upload
    asset,            \* index in images of the source being uploaded
    ticket,           \* local token_info of the running _upload_buffer
    results,          \* local results of the running _upload_buffer
    tickets,          \* history: number of upload tickets requested
    ucalls,           \* history: every read and network call, in order
    uploaded,         \* the list uploaded: the URIs returned so far
    uexc,             \* the exception the uploads ended with, or None
    \* ---- service: a JimengClient and its running operation ----
    cpc,              \* position: idle | ready | running | returned | raised
    session_ids,      \* field _session_ids: the configured tokens
    op,               \* the operation called, or None
    override,         \* its parameter session_id
    token,            \* its local token: what _choose_token returned
    selections,       \* history: _choose_token calls of the operation
    step,             \* the network call the operation makes next
    history_id,       \* its local history_id: what the submission returned
    fetches,          \* history: status fetches of the operation
    ncalls,           \* history: the network calls of the operation
    cexc,             \* the exception the operation ended with, or None
    \* ---- images: generate_images after its submission ----
    gpc,              \* position: idle | polling | returned | raised
    item_list,        \* info["item_list"] of the record poll() returned
    urls,             \* local urls: what _extract_urls returned
    gexc,             \* the exception generate_images ended with, or None
    \* ---- jimeng_service: a JimengAPIService ----
    spc,              \* position: idle | constructing | ready | failed
    running,          \* field _running
    service_ids,      \* field _session_ids of the service's client
    auto_start,       \* parameter auto_start of the constructor
    scalls,           \* history: the start, stop and set_session_ids calls, in order
    slast,            \* history: the last call on the service and how it ended
    \* ---- core, service: check_session_status ----
    lpc,              \* position: idle | request | returned | raised
    user_id,          \* whether the account info returned holds a user id, or <<>>
    live,             \* local live of check_session_status: <<>> or <<bool>>
    lexc,             \* the exception check_session_status ended with, or None
    \* ---- aws_signature: create_signature and its callers ----
    sgpc,             \* position: idle | ready
    cur,              \* the last create_signature call: caller, arguments, locals, result
    prev,             \* the create_signature call before it
    \* ---- images: generate_image_composition ----
    kpc,              \* position: idle | validate | uploading | polling | returned | raised
    kcalls,           \* history: the submission and the status fetches, in order
    kexc,             \* the exception generate_image_composition ended with, or None
    \* ---- main: JimengServicePlugin ----
    ppc,              \* position: idle | loaded | ready | terminated
    plugin_ids,       \* the plugin's field session_ids
    plugin_auto,      \* the plugin's field auto_start
    plugin_service,   \* the plugin's field service: its JimengAPIService, or none
    pcmd,             \* history: the last command and whether the service ran before it
    \* ---- service: the session list ----
    idpc,              \* position of the session list: idle | ready
    client_ids,       \* the client's field _session_ids
    sess_last,        \* history: the last operation on the list, the list before it and the cookie made
    \* ---- service: _choose_token beside another thread ----
    tpc,              \* position of _choose_token: idle | called | tested | sized | returned | raised
    called_ids,       \* history: _session_ids when _choose_token was called
    tidx,             \* the index random.choice drew
    chosen,           \* the token returned: <<>> or <<t>>
    texc              \* the exception raised: <<>> or <<e>>

None == "None"

pollVars == <<self, pc, poll_count, clock, elapsed, last_item_count,
              stable_rounds, status, data, interval, result, exc,
              items_seen, slept>>

reqVars == <<rpc, stream, max_retries, retries, resp, rret, rexc, attempts,
             delays>>

upVars == <<upc, images, asset, ticket, results, tickets, ucalls, uploaded,
           uexc>>

cliVars == <<cpc, session_ids, op, override, token, selections, step,
            history_id, fetches, ncalls, cexc>>

genVars == <<gpc, item_list, urls, gexc>>

svcVars == <<spc, running, service_ids, auto_start, scalls, slast>>
liveVars == <<lpc, user_id, live, lexc>>
sigVars == <<sgpc, cur, prev>>
compVars == <<kpc, kcalls, kexc>>
plugVars == <<ppc, plugin_ids, plugin_auto, plugin_service, pcmd>>
sessVars == <<idpc, client_ids, sess_last>>
chooseVars == <<tpc, called_ids, tidx, chosen, texc>>
vars == <<pollVars, reqVars, upVars, cliVars, genVars, svcVars, liveVars, sigVars, compVars, plugVars, sessVars, chooseVars>>

\* ------------------------------------------------------------- bounds
MaxPollCount    == 3   \* largest max_poll_count a poller is built with
MaxStableRounds == 2   \* largest stable_rounds a poller is built with
MaxTimeout      == 3   \* largest timeout_seconds (whole seconds)
MaxPollInterval == 1   \* largest poll_interval (whole seconds)
MaxItems        == 2   \* largest item_count a fetch reports
MaxFetchSeconds == 1   \* longest a fetch takes (whole seconds)
MaxRetryCount   == 3   \* largest RETRY_CONFIG["MAX_RETRY_COUNT"]
MaxImages       == 2   \* most images a composition uploads
MaxSessions     == 2   \* longest list of tokens configured or passed
MaxCalls        == 4   \* most lifecycle calls made on a service

\* ------------------------------------------------------ the backend
\* Status codes the backend reports: 10, 50 terminal success, 30 terminal
\* failure, 42 and 45 the two slowed-down in-progress codes, 20 any other
\* in-progress code.
TerminalStatuses == {10, 30, 50}
Statuses == TerminalStatuses \cup {20, 42, 45}
FailCodes == {None, "2038"}

\* PollingStatus (poller.py:14-20): what a fetch function returns, as far
\* as poll() reads it.
PollingStatus(st, fc, n) == [status |-> st, fail_code |-> fc, item_count |-> n]

\* The payload a fetch returns with its status: the history record, here
\* the number of the fetch that produced it and its item list's length.
Payload(k, n) == [fetch |-> k, items |-> n]

\* SmartPoller.__init__ (poller.py:34-50).  max_poll_count, poll_interval,
\* stable_rounds and timeout_seconds fall back to POLLING_CONFIG when
\* falsy, so they are never 0; expected_item_count is taken as given.
SmartPoller(mpc, pi, sr, ts, eic) ==
    [max_poll_count |-> mpc, poll_interval |-> pi, stable_rounds |-> sr,
     timeout_seconds |-> ts, expected_item_count |-> eic]

Pollers ==
    { SmartPoller(mpc, pi, sr, ts, eic) :
        mpc \in 1..MaxPollCount, pi \in 1..MaxPollInterval,
        sr \in 1..MaxStableRounds, ts \in 1..MaxTimeout,
        eic \in 0..MaxItems }

\* Mutant of NextInterval: the two multipliers exchanged.
NextInterval_Swapped(p, st) ==
    IF st = 42 THEN p.poll_interval * 15
    ELSE IF st = 45 THEN p.poll_interval * 12
    ELSE IF st \in {10, 50, 30} THEN 0
    ELSE p.poll_interval * 10

\* SmartPoller._next_interval (poller.py:55-62), in tenths of a second.
NextInterval(p, st) ==
    IF st = 42 THEN p.poll_interval * 12
    ELSE IF st = 45 THEN p.poll_interval * 15
    ELSE IF st \in {10, 50, 30} THEN 0
    ELSE p.poll_interval * 10

\* Mutant of StabilityUpdate: a changed count is not remembered.
StabilityUpdate_KeepsLast(sr, last, n) ==
    IF n = last THEN <<sr + 1, last>> ELSE <<0, last>>

\* Mutant of StabilityUpdate: the round that changes the count counts.
StabilityUpdate_CountsFirst(sr, last, n) ==
    IF n = last THEN <<sr + 1, last>> ELSE <<1, n>>

\* Mutant of StabilityUpdate: an unchanged count is not counted.
StabilityUpdate_NeverCounts(sr, last, n) == <<0, n>>

\* The stability update of a round (poller.py:89-93): the new pair
\* <<stable_rounds, last_item_count>>.
StabilityUpdate(sr, last, n) ==
    IF n = last THEN <<sr + 1, last>> ELSE <<0, n>>

\* Mutant of ExitReason: the partial-results timeout rule is missing.
ExitReason_NoPartialTimeout(p, s, sr, pcount, el) ==
    IF s.status \in {10, 30, 50}
        THEN (IF s.status # 30 THEN "completed" ELSE "failed")
    ELSE IF s.item_count >= p.expected_item_count THEN "reached expected"
    ELSE IF sr >= p.stable_rounds /\ s.item_count > 0 THEN "stable"
    ELSE IF pcount >= p.max_poll_count THEN "round limit"
    ELSE None

\* Mutant of ExitReason: the round limit is tested before stability.
ExitReason_LimitBeforeStable(p, s, sr, pcount, el) ==
    IF s.status \in {10, 30, 50}
        THEN (IF s.status # 30 THEN "completed" ELSE "failed")
    ELSE IF s.item_count >= p.expected_item_count THEN "reached expected"
    ELSE IF pcount >= p.max_poll_count THEN "round limit"
    ELSE IF sr >= p.stable_rounds /\ s.item_count > 0 THEN "stable"
    ELSE IF el >= p.timeout_seconds * 10 /\ s.item_count > 0
        THEN "timeout partial"
    ELSE None

\* Mutant of ExitReason: the expected count is tested before the terminal
\* status.
ExitReason_ExpectedFirst(p, s, sr, pcount, el) ==
    IF s.item_count >= p.expected_item_count THEN "reached expected"
    ELSE IF s.status \in {10, 30, 50}
        THEN (IF s.status # 30 THEN "completed" ELSE "failed")
    ELSE IF sr >= p.stable_rounds /\ s.item_count > 0 THEN "stable"
    ELSE IF pcount >= p.max_poll_count THEN "round limit"
    ELSE IF el >= p.timeout_seconds * 10 /\ s.item_count > 0
        THEN "timeout partial"
    ELSE None

\* Mutant of ExitReason: the round-limit rule is missing.
ExitReason_NoRoundLimit(p, s, sr, pcount, el) ==
    IF s.status \in {10, 30, 50}
        THEN (IF s.status # 30 THEN "completed" ELSE "failed")
    ELSE IF s.item_count >= p.expected_item_count THEN "reached expected"
    ELSE IF sr >= p.stable_rounds /\ s.item_count > 0 THEN "stable"
    ELSE IF el >= p.timeout_seconds * 10 /\ s.item_count > 0
        THEN "timeout partial"
    ELSE None

\* The exit rules of a round (poller.py:104-114): the exit reason, or None.
ExitReason(p, s, sr, pcount, el) ==
    IF s.status \in {10, 30, 50}
        THEN (IF s.status # 30 THEN "completed" ELSE "failed")
    ELSE IF s.item_count >= p.expected_item_count THEN "reached expected"
    ELSE IF sr >= p.stable_rounds /\ s.item_count > 0 THEN "stable"
    ELSE IF pcount >= p.max_poll_count THEN "round limit"
    ELSE IF el >= p.timeout_seconds * 10 /\ s.item_count > 0
        THEN "timeout partial"
    ELSE None

\* Mutant of TimedOut: the deadline itself does not count.
TimedOut_Strict(p, el) == el > p.timeout_seconds * 10

\* Mutant of TimedOut: every round that does not exit raises.
TimedOut_Always(p, el) == TRUE

\* The timeout test that follows the exit rules (poller.py:127).
TimedOut(p, el) == el >= p.timeout_seconds * 10

\* Mutant of PollingResult: the rounds before the last one are reported.
PollingResult_RoundsBefore(s, el, pcount, reason) ==
    [status |-> s.status, fail_code |-> s.fail_code,
     item_count |-> s.item_count, elapsed_time |-> el,
     poll_count |-> pcount - 1, exit_reason |-> reason]

\* Mutant of PollingResult: the failure code is not copied.
PollingResult_NoFailCode(s, el, pcount, reason) ==
    [status |-> s.status, fail_code |-> None,
     item_count |-> s.item_count, elapsed_time |-> el,
     poll_count |-> pcount, exit_reason |-> reason]

\* PollingResult (poller.py:116-123).
PollingResult(s, el, pcount, reason) ==
    [status |-> s.status, fail_code |-> s.fail_code,
     item_count |-> s.item_count, elapsed_time |-> el,
     poll_count |-> pcount, exit_reason |-> reason]

\* ------------------------------------------------ SmartPoller.poll
\* The state at the top of poll()'s loop (poller.py:76-81).
InitPoll ==
    /\ self \in Pollers
    /\ pc = "loop"
    /\ poll_count = 0
    /\ clock = 0
    /\ elapsed = 0
    /\ last_item_count = 0
    /\ stable_rounds = 0
    /\ status = None
    /\ data = None
    /\ interval = 0
    /\ result = None
    /\ exc = None
    /\ items_seen = <<>>
    /\ slept = <<>>

\* One round up to its decision (poller.py:83-130 and 132): the fetch
\* returns the record s and payload after `took` seconds.
PollRound ==
    /\ pc = "loop"
    /\ \E st \in Statuses, fc \in FailCodes, n \in 0..MaxItems,
          took \in 0..MaxFetchSeconds :
        LET s    == PollingStatus(st, fc, n)
            el   == clock + took * 10
            upd  == StabilityUpdate(stable_rounds, last_item_count, n)
            cnt  == poll_count + 1
            why  == ExitReason(self, s, upd[1], cnt, el)
        IN  /\ poll_count' = cnt
            /\ status' = s
            /\ data' = Payload(cnt, n)
            /\ clock' = el
            /\ elapsed' = el
            /\ stable_rounds' = upd[1]
            /\ last_item_count' = upd[2]
            /\ items_seen' = Append(items_seen, n)
            /\ IF why # None
                 THEN /\ result' = <<PollingResult(s, el, cnt, why), data'>>
                      /\ pc' = "returned"
                      /\ UNCHANGED <<exc, interval>>
               ELSE IF TimedOut(self, el)
                 THEN /\ exc' = "JimengPollingTimeout"
                      /\ pc' = "raised"
                      /\ UNCHANGED <<result, interval>>
               ELSE /\ interval' = NextInterval(self, st)
                    /\ pc' = "sleep"
                    /\ UNCHANGED <<result, exc>>
    /\ UNCHANGED <<self, slept>>

\* What a fetch function may raise (images.py:249-251): the errors of
\* request(), or JimengAPIError when the record is missing.
FetchErrors == {"JimengAPIError", "HTTPError"}

\* The fetch function raises; poll() has no handler around poll_fn()
\* (poller.py:84-85), the exception leaves it.
PollFetchRaises ==
    /\ pc = "loop"
    /\ poll_count' = poll_count + 1
    /\ \E took \in 0..MaxFetchSeconds : clock' = clock + took * 10
    /\ \E e \in FetchErrors : exc' = e
    /\ pc' = "raised"
    /\ UNCHANGED <<self, elapsed, last_item_count, stable_rounds, status,
                   data, interval, result, items_seen, slept>>

\* The sleep that ends a round which did not stop (poller.py:133-134).
PollSleep ==
    /\ pc = "sleep"
    /\ IF interval > 0
         THEN /\ clock' = clock + interval
              /\ slept' = Append(slept, interval)
         ELSE UNCHANGED <<clock, slept>>
    /\ pc' = "loop"
    /\ UNCHANGED <<self, poll_count, elapsed, last_item_count, stable_rounds,
                   status, data, interval, result, exc, items_seen>>

\* poll() is not running.
PollIdle ==
    /\ self = None
    /\ pc = "idle"
    /\ poll_count = 0
    /\ clock = 0
    /\ elapsed = 0
    /\ last_item_count = 0
    /\ stable_rounds = 0
    /\ status = None
    /\ data = None
    /\ interval = 0
    /\ result = None
    /\ exc = None
    /\ items_seen = <<>>
    /\ slept = <<>>

NextPoll ==
    \/ PollRound /\ UNCHANGED <<reqVars, upVars, cliVars, genVars, svcVars, liveVars, sigVars, compVars, plugVars, sessVars, chooseVars>>
    \/ PollFetchRaises /\ UNCHANGED <<reqVars, upVars, cliVars, genVars, svcVars, liveVars, sigVars, compVars, plugVars, sessVars, chooseVars>>
    \/ PollSleep /\ UNCHANGED <<reqVars, upVars, cliVars, genVars, svcVars, liveVars, sigVars, compVars, plugVars, sessVars, chooseVars>>

\* ----------------------------------------------------- core.request
\* The values RETRY_CONFIG["MAX_RETRY_COUNT"] may be configured to: a
\* fixed maximum count, which may be zero.
RetryCounts == 0..MaxRetryCount

\* What the backend answers: an HTTP status and a body.  The body is not
\* JSON, or a JSON object whose result-code field "ret" is absent (None),
\* the success sentinel "0", or another code; whose "errmsg" is absent or
\* empty (None) or a message; and whose "data" is absent, null, an object
\* without "msg", or an object with "msg".
HttpStatuses == {200, 404, 500}
RetCodes == {None, "0", "1"}
ErrMsgs == {None, "errmsg"}
DataShapes == {"absent", "null", "object", "object with msg"}
Body(json, ret, errmsg, d) ==
    [json |-> json, ret |-> ret, errmsg |-> errmsg, data |-> d]
Bodies ==
    {Body(FALSE, None, None, "absent")} \cup
    { Body(TRUE, ret, errmsg, d) :
        ret \in RetCodes, errmsg \in ErrMsgs, d \in DataShapes }
Response(sc, body) == [kind |-> "response", status_code |-> sc, body |-> body]
Responses == { Response(sc, body) : sc \in HttpStatuses, body \in Bodies }

\* SESSION.request raised requests.RequestException (core.py:198).
RequestException == [kind |-> "RequestException"]

\* No SESSION.request was made yet.
NoResponse == [kind |-> "none"]

\* JimengAPIError(message, status_code) (errors.py:8-11).  The optional
\* status_code is a sequence: <<>> for None, <<sc>> for the integer sc.
JimengAPIError(message, sc) ==
    [type |-> "JimengAPIError", message |-> message, status_code |-> sc]

\* The AttributeError python raises for None.get (core.py:135).
AttributeError == [type |-> "AttributeError", status_code |-> <<>>]

\* requests.HTTPError, raised by Response.raise_for_status() for a status
\* of 400 or more: not a JimengError, it has no status_code attribute and
\* holds the response instead.
HTTPError(r) == [type |-> "HTTPError", status_code |-> <<>>,
                 response |-> r.status_code]

\* resp.raise_for_status() (core.py:207, 223): does it raise.
RaiseForStatus(r) == r.status_code >= 400

\* Mutant of MayRetry: one retry more than the budget.
MayRetry_OneMore(n, max) == n <= max

\* The retry test of the two failure branches (core.py:199, 210).
MayRetry(n, max) == n < max

\* payload.get("data") (core.py:133) and payload.get("data", {})
\* (core.py:135): a key that is present with the value null yields None
\* in both, the default is used only for an absent key.
GetData(body) == IF body.data = "absent" THEN None ELSE body.data
GetDataOrEmpty(body) == IF body.data = "absent" THEN "object" ELSE body.data

\* The message of the failure branch (core.py:135):
\* errmsg or data.msg or the fixed text.  <<"raise", AttributeError>>
\* when data.msg is looked up on a null "data".
ErrorMessage(body) ==
    IF body.errmsg # None THEN <<"ok", body.errmsg>>
    ELSE IF GetDataOrEmpty(body) = "null" THEN <<"raise", AttributeError>>
    ELSE IF GetDataOrEmpty(body) = "object with msg" THEN <<"ok", "data.msg">>
    ELSE <<"ok", "request failed">>

\* check_result (core.py:122-136): <<"return", value>> or <<"raise", error>>.
CheckResult(r) ==
    IF ~r.body.json THEN <<"raise", JimengAPIError("not json", <<>>)>>
    ELSE IF r.body.ret = None
      THEN <<"return", [kind |-> "payload", value |-> r.body]>>
    ELSE IF r.body.ret = "0"
      THEN <<"return", [kind |-> "data", value |-> GetData(r.body)]>>
    ELSE LET msg == ErrorMessage(r.body)
         IN  IF msg[1] = "raise" THEN <<"raise", msg[2]>>
             ELSE <<"raise", JimengAPIError(msg[2], <<r.status_code>>)>>

\* The state at the top of request()'s loop (core.py:180-184).
InitRequest ==
    /\ rpc = "attempt"
    /\ stream \in BOOLEAN
    /\ max_retries \in RetryCounts
    /\ retries = 0
    /\ resp = NoResponse
    /\ rret = None
    /\ rexc = None
    /\ attempts = 0
    /\ delays = 0

\* request() is not running.
RequestIdle ==
    /\ rpc = "idle"
    /\ stream = FALSE
    /\ max_retries = 0
    /\ retries = 0
    /\ resp = NoResponse
    /\ rret = None
    /\ rexc = None
    /\ attempts = 0
    /\ delays = 0

\* SESSION.request raises a network-level exception (core.py:198-204).
RequestNetworkError ==
    /\ rpc = "attempt"
    /\ attempts' = attempts + 1
    /\ resp' = RequestException
    /\ IF MayRetry(retries, max_retries)
         THEN /\ retries' = retries + 1
              /\ rpc' = "delay"
              /\ UNCHANGED rexc
         ELSE /\ rexc' = JimengAPIError("network error", <<>>)
              /\ rpc' = "raised"
              /\ UNCHANGED retries
    /\ UNCHANGED <<stream, max_retries, rret, delays>>

\* SESSION.request returns a response (core.py:206-224).
RequestResponse ==
    /\ rpc = "attempt"
    /\ attempts' = attempts + 1
    /\ \E r \in Responses :
        /\ resp' = r
        /\ IF stream
             THEN /\ UNCHANGED retries
                  /\ IF RaiseForStatus(r)
                       THEN rexc' = HTTPError(r) /\ rpc' = "raised"
                                                 /\ UNCHANGED rret
                       ELSE rret' = [kind |-> "response", value |-> r]
                            /\ rpc' = "returned" /\ UNCHANGED rexc
           ELSE IF r.status_code >= 400 /\ MayRetry(retries, max_retries)
             THEN /\ retries' = retries + 1
                  /\ rpc' = "delay"
                  /\ UNCHANGED <<rret, rexc>>
           ELSE IF RaiseForStatus(r)
             THEN /\ rexc' = HTTPError(r)
                  /\ rpc' = "raised"
                  /\ UNCHANGED <<retries, rret>>
           ELSE LET out == CheckResult(r)
                IN  /\ UNCHANGED retries
                    /\ IF out[1] = "return"
                         THEN rret' = out[2] /\ rpc' = "returned"
                                            /\ UNCHANGED rexc
                         ELSE rexc' = out[2] /\ rpc' = "raised"
                                            /\ UNCHANGED rret
    /\ UNCHANGED <<stream, max_retries, delays>>

\* time.sleep(delay) before the next attempt (core.py:202-203, 220-221).
RequestDelay ==
    /\ rpc = "delay"
    /\ delays' = delays + 1
    /\ rpc' = "attempt"
    /\ UNCHANGED <<stream, max_retries, retries, resp, rret, rexc, attempts>>

NextRequest ==
    \/ RequestNetworkError /\ UNCHANGED <<pollVars, upVars, cliVars, genVars, svcVars, liveVars, sigVars, compVars, plugVars, sessVars, chooseVars>>
    \/ RequestResponse /\ UNCHANGED <<pollVars, upVars, cliVars, genVars, svcVars, liveVars, sigVars, compVars, plugVars, sessVars, chooseVars>>
    \/ RequestDelay /\ UNCHANGED <<pollVars, upVars, cliVars, genVars, svcVars, liveVars, sigVars, compVars, plugVars, sessVars, chooseVars>>

\* ------------------------------------------------- images: uploads
\* An image source (images.py:208-223): its python type and, for a str,
\* whether it starts with http:// or https://.
Source(type, http) == [type |-> type, http |-> http]
Sources ==
    {Source("bytes", FALSE), Source("other", FALSE)} \cup
    { Source("str", http) : http \in BOOLEAN }

\* What Path(source).exists() answers (images.py:218): the file exists,
\* it does not, or the probe itself raises OSError (a name longer than
\* the file system allows, as a base64 payload is).
Probes == {"exists", "missing", "error"}

\* The branch of _upload_image a source takes (images.py:209-224):
\* "raw" (bytes as-is), "fetch" (HTTP GET), "read" (local file),
\* "decode" (base64), or "none".
NormalizePath(src, probe) ==
    IF src.type = "bytes" THEN "raw"
    ELSE IF src.type # "str" THEN "none"
    ELSE IF src.http THEN "fetch"
    ELSE IF probe = "exists" THEN "read"
    ELSE IF probe = "missing" THEN "decode"
    ELSE "none"

\* The HTTP statuses the storage endpoints and an image host answer; the
\* upload host, whose answer to the put is only tested by
\* raise_for_status (images.py:160), may also answer a 3xx status.
StorageStatuses == {200, 403, 500}
PutStatuses == StorageStatuses \cup {304}

\* Exceptions that are not JimengAPIError: a requests network error, and
\* the errors of Path.exists / read_bytes and of base64.b64decode.
ConnectionError == [type |-> "ConnectionError", status_code |-> <<>>]
OSError == [type |-> "OSError", status_code |-> <<>>]
DecodeError == [type |-> "binascii.Error", status_code |-> <<>>]

\* The n-th upload ticket the backend hands out: each credential field is
\* missing (<<>>) or a value of that ticket.  id numbers the tickets in
\* the order of their requests; 0 is no ticket.
Credential(name, n) == <<name, n>>
Tickets(n) ==
    [id : {n},
     access_key_id : {<<>>, Credential("access_key_id", n)},
     secret_access_key : {<<>>, Credential("secret_access_key", n)},
     session_token : {<<>>, Credential("session_token", n)}]
NoTicket ==
    [id |-> 0, access_key_id |-> <<>>, secret_access_key |-> <<>>,
     session_token |-> <<>>]

\* The authorization create_signature returns (aws_signature.py:12-79),
\* as far as the credentials go: the access key id is written into the Credential of the header,
\* the secret access key keys the HMAC, the session token is signed as
\* the x-amz-security-token header.
SignedWith(access_key_id, secret_access_key, session_token) ==
    [credential |-> access_key_id, key |-> secret_access_key,
     token |-> session_token]

\* A call that carries no signature.
NoAuth == SignedWith(<<>>, <<>>, <<>>)

\* store_info["Auth"] of the apply response, the Authorization of the put
\* (images.py:142, 151).
StoreAuth(n) == SignedWith(<<"StoreInfos.Auth", n>>, <<>>, <<>>)

\* The authorization of the apply and of the commit call, computed from
\* the fields of this call's token_info (images.py:95-97, 117-119,
\* 171-179).
Signed_FirstTicket(t) ==
    SignedWith(Credential("access_key_id", 1),
                    Credential("secret_access_key", 1),
                    Credential("session_token", 1))

Signed(t) ==
    SignedWith(t.access_key_id, t.secret_access_key, t.session_token)

\* The credential test of images.py:100.
TicketComplete_KeyOnly(t) == t.access_key_id # <<>>

TicketComplete(t) ==
    /\ t.access_key_id # <<>>
    /\ t.secret_access_key # <<>>
    /\ t.session_token # <<>>

\* The statement order of _upload_buffer (images.py:88, 122, 148, 189,
\* 205): the phase that follows a phase that did not raise.
NextPhase_SkipPut(phase) ==
    CASE phase = "ticket" -> "apply"
      [] phase = "apply" -> "commit"
      [] phase = "put" -> "commit"
      [] phase = "commit" -> "done"

NextPhase(phase) ==
    CASE phase = "ticket" -> "apply"
      [] phase = "apply" -> "put"
      [] phase = "put" -> "commit"
      [] phase = "commit" -> "done"

\* An entry of the call history: the asset it serves, which call it is,
\* its authorization, the HTTP status answered (0: no response) and
\* whether _upload_image went on after it.
Call(n, call, auth, sc, ok) ==
    [asset |-> n, call |-> call, auth |-> auth, status |-> sc, ok |-> ok]

\* A storage or image-host response, for raise_for_status.
StorageResponse(sc) == [kind |-> "response", status_code |-> sc]

\* What request() raises when the ticket request fails (core.py:204, 223).
RequestErrors ==
    {JimengAPIError("network error", <<>>), HTTPError(StorageResponse(500))}

\* The success sentinel of the commit result (images.py:202).
UriOk == 2000

\* Result.Results of the commit response for asset n: empty, or one
\* entry with a UriStatus.
UriStatuses == {UriOk, UriOk + 1}
CommitResults(n) ==
    {<<>>} \cup
    { <<[UriStatus |-> st, Uri |-> <<"uri", n>>]>> : st \in UriStatuses }

\* The end of _upload_buffer (images.py:198-205): <<"return", uri>> or
\* <<"raise", error>>.  The messages carry the raw payload.
CommitOutcome_AnyStatus(rs) ==
    IF rs = <<>>
      THEN <<"raise", JimengAPIError(<<"commit failed", rs>>, <<>>)>>
    ELSE <<"return", rs[1].Uri>>

CommitOutcome(rs) ==
    IF rs = <<>>
      THEN <<"raise", JimengAPIError(<<"commit failed", rs>>, <<>>)>>
    ELSE IF rs[1].UriStatus # UriOk
      THEN <<"raise",
             JimengAPIError(<<"upload status abnormal", rs[1]>>, <<>>)>>
    ELSE <<"return", rs[1].Uri>>

\* The uploads of generate_image_composition are about to start
\* (images.py:399-408): between 1 and 10 images.
InitUpload ==
    /\ upc = "normalize"
    /\ images \in UNION { [1..n -> Sources] : n \in 1..MaxImages }
    /\ asset = 1
    /\ ticket = NoTicket
    /\ results = <<>>
    /\ tickets = 0
    /\ ucalls = <<>>
    /\ uploaded = <<>>
    /\ uexc = None

\* No upload is running.
UploadIdle ==
    /\ upc = "idle"
    /\ images = <<>>
    /\ asset = 0
    /\ ticket = NoTicket
    /\ results = <<>>
    /\ tickets = 0
    /\ ucalls = <<>>
    /\ uploaded = <<>>
    /\ uexc = None

\* The upload of the current asset ends with an exception, which ends the
\* list comprehension (images.py:408-411).
UploadRaise(e) ==
    /\ upc' = "raised"
    /\ uexc' = e
    /\ UNCHANGED <<images, asset, uploaded>>

\* _upload_image turns the current source into bytes (images.py:209-224).
\* sc is what the image host answers to the GET (0: a network error), ok
\* whether read_bytes or b64decode succeeds.
UploadNormalize ==
    /\ upc = "normalize"
    /\ \E probe \in Probes, sc \in {0} \cup StorageStatuses, ok \in BOOLEAN :
        LET src == images[asset]
            path == NormalizePath(src, probe)
            fetched == sc # 0 /\ ~RaiseForStatus(StorageResponse(sc))
            done == CASE path = "raw" -> TRUE
                      [] path = "fetch" -> fetched
                      [] path \in {"read", "decode"} -> ok
                      [] path = "none" -> FALSE
        IN  /\ ucalls' =
                 IF path = "none" THEN ucalls
                 ELSE Append(ucalls,
                        Call(asset, path, NoAuth,
                             IF path = "fetch" THEN sc ELSE 0, done))
            /\ IF done
                 THEN /\ upc' = "ticket"
                      /\ UNCHANGED <<images, asset, uploaded, uexc>>
               ELSE IF path = "fetch"
                 THEN UploadRaise(IF sc = 0 THEN ConnectionError
                                  ELSE HTTPError(StorageResponse(sc)))
               ELSE IF path = "read" THEN UploadRaise(OSError)
               ELSE IF path = "decode" THEN UploadRaise(DecodeError)
               ELSE IF src.type = "str" THEN UploadRaise(OSError)
               ELSE UploadRaise(
                        JimengAPIError("unsupported image type", <<>>))
    /\ UNCHANGED <<ticket, results, tickets>>

\* _upload_buffer requests the upload ticket and tests its credentials
\* (images.py:88-101).
UploadTicket ==
    /\ upc = "ticket"
    /\ tickets' = tickets + 1
    /\ UNCHANGED results
    /\ \/ \E e \in RequestErrors :
            /\ ucalls' = Append(ucalls, Call(asset, "ticket", NoAuth, 0, FALSE))
            /\ UploadRaise(e)
            /\ UNCHANGED ticket
       \/ \E t \in Tickets(tickets + 1) :
            /\ ucalls' = Append(ucalls,
                   Call(asset, "ticket", NoAuth, 0, TicketComplete(t)))
            /\ ticket' = t
            /\ IF TicketComplete(t)
                 THEN /\ upc' = NextPhase("ticket")
                      /\ UNCHANGED <<images, asset, uploaded, uexc>>
                 ELSE UploadRaise(JimengAPIError("upload token failed", <<>>))

\* The signed GET ApplyImageUpload (images.py:103-140).
UploadApply ==
    /\ upc = "apply"
    /\ \E sc \in {0} \cup StorageStatuses, address \in BOOLEAN :
        LET ok == /\ sc # 0
                  /\ ~RaiseForStatus(StorageResponse(sc))
                  /\ address
        IN  /\ ucalls' = Append(ucalls,
                   Call(asset, "apply", Signed(ticket), sc, ok))
            /\ IF sc = 0 THEN UploadRaise(ConnectionError)
               ELSE IF RaiseForStatus(StorageResponse(sc))
                 THEN UploadRaise(HTTPError(StorageResponse(sc)))
               ELSE IF ~address
                 THEN UploadRaise(JimengAPIError("apply failed", <<>>))
               ELSE /\ upc' = NextPhase("apply")
                    /\ UNCHANGED <<images, asset, uploaded, uexc>>
    /\ UNCHANGED <<ticket, results, tickets>>

\* The POST of the bytes to the upload host (images.py:142-160).
UploadPut ==
    /\ upc = "put"
    /\ \E sc \in {0} \cup PutStatuses :
        LET ok == sc # 0 /\ ~RaiseForStatus(StorageResponse(sc))
        IN  /\ ucalls' = Append(ucalls,
                   Call(asset, "put", StoreAuth(asset), sc, ok))
            /\ IF sc = 0 THEN UploadRaise(ConnectionError)
               ELSE IF RaiseForStatus(StorageResponse(sc))
                 THEN UploadRaise(HTTPError(StorageResponse(sc)))
               ELSE /\ upc' = NextPhase("put")
                    /\ UNCHANGED <<images, asset, uploaded, uexc>>
    /\ UNCHANGED <<ticket, results, tickets>>

\* The signed POST CommitImageUpload and the return of the URI
\* (images.py:162-205); after the last image the list is complete
\* (images.py:408-411).
UploadCommit ==
    /\ upc = "commit"
    /\ \E sc \in {0} \cup StorageStatuses, rs \in CommitResults(asset) :
        LET out == CommitOutcome(rs)
            ok == /\ sc # 0
                  /\ ~RaiseForStatus(StorageResponse(sc))
                  /\ out[1] = "return"
        IN  /\ ucalls' = Append(ucalls,
                   Call(asset, "commit", Signed(ticket), sc, ok))
            /\ results' = IF sc = 0 \/ RaiseForStatus(StorageResponse(sc))
                             THEN results ELSE rs
            /\ IF sc = 0 THEN UploadRaise(ConnectionError)
               ELSE IF RaiseForStatus(StorageResponse(sc))
                 THEN UploadRaise(HTTPError(StorageResponse(sc)))
               ELSE IF out[1] = "raise" THEN UploadRaise(out[2])
               ELSE /\ uploaded' = Append(uploaded, out[2])
                    /\ IF asset < Len(images)
                         THEN asset' = asset + 1 /\ upc' = "normalize"
                         ELSE asset' = asset /\ upc' = "uploaded"
                    /\ UNCHANGED <<images, uexc>>
    /\ UNCHANGED <<ticket, tickets>>

NextUpload ==
    \/ UploadNormalize /\ UNCHANGED <<pollVars, reqVars, cliVars, genVars, svcVars, liveVars, sigVars, compVars, plugVars, sessVars, chooseVars>>
    \/ UploadTicket /\ UNCHANGED <<pollVars, reqVars, cliVars, genVars, svcVars, liveVars, sigVars, compVars, plugVars, sessVars, chooseVars>>
    \/ UploadApply /\ UNCHANGED <<pollVars, reqVars, cliVars, genVars, svcVars, liveVars, sigVars, compVars, plugVars, sessVars, chooseVars>>
    \/ UploadPut /\ UNCHANGED <<pollVars, reqVars, cliVars, genVars, svcVars, liveVars, sigVars, compVars, plugVars, sessVars, chooseVars>>
    \/ UploadCommit /\ UNCHANGED <<pollVars, reqVars, cliVars, genVars, svcVars, liveVars, sigVars, compVars, plugVars, sessVars, chooseVars>>

\* ------------------------------------------------ service: client
\* A session token: an optional region prefix and the rest.  <<>> is no
\* token.
Tokens == {<<"", "a">>, <<"US-", "b">>}
NoToken == <<>>

\* str.lower() on a region prefix, and is_us_token (core.py:46-47).
Lower(prefix) == IF prefix = "US-" THEN "us-" ELSE prefix
IsUsToken(t) == Lower(t[1]) = "us-"

\* Lists of tokens, as configured or passed as session_id.
TokenLists == UNION { [1..n -> Tokens] : n \in 0..MaxSessions }

\* The parameter session_id / override: None, a str (one token, or the
\* empty string: no token), or a sequence of tokens.
Override(kind, tokens) == [kind |-> kind, tokens |-> tokens]
Overrides ==
    {Override("none", <<>>), Override("str", <<>>)} \cup
    { Override("str", <<t>>) : t \in Tokens } \cup
    { Override("seq", l) : l \in TokenLists }

\* The elements of a list.
Range(l) == { l[i] : i \in 1..Len(l) }

\* The list _choose_token draws from (service.py:60-63): python's truth
\* test of override is false for None, "" and an empty sequence.
ChoiceList_IgnoresOverride(o, ids) == ids

ChoiceList(o, ids) == IF o.tokens # <<>> THEN o.tokens ELSE ids

\* _choose_token (service.py:59-66): the set of its possible outcomes,
\* <<"raise", error>> or <<"return", token>> for each token random.choice
\* may draw.
ChooseToken_EmptyReturnsNone(o, ids) ==
    IF ChoiceList(o, ids) = <<>> THEN {<<"return", NoToken>>}
    ELSE { <<"return", t>> : t \in Range(ChoiceList(o, ids)) }

ChooseToken(o, ids) ==
    IF ChoiceList(o, ids) = <<>>
      THEN {<<"raise", JimengAPIError("no session_id", <<>>)>>}
    ELSE { <<"return", t>> : t \in Range(ChoiceList(o, ids)) }

\* The three generating operations of JimengClient (service.py:89-176).
Ops == {"generate_image", "image_composition", "generate_video"}

\* The refresh_token the operation hands to generate_images,
\* generate_image_composition or generate_video, which hand it on to
\* every request (service.py:105, 132, 161): the local token.
RefreshToken_Rechosen(tok) == IF session_ids # <<>> THEN session_ids[1] ELSE tok

RefreshToken(tok) == tok

\* The history_record_id of a submission's answer (images.py:375, 527,
\* videos.py:222): an id, or nothing (absent, null or "").
HistoryIds == {"h1", "h2"}
NoHistoryId == ""

\* The test of images.py:376, 528 and videos.py:223.
HasHistoryId(h) == h # NoHistoryId

\* The history id a status fetch asks for: the argument of _poll_history
\* and _poll_video_status (images.py:380, 532, videos.py:233).
PolledHistory_First(h) == "h1"

PolledHistory(h) == h

\* An entry of the history of network calls: which call, the token it
\* was given (NoToken for a plain download of a result URL), the region
\* it went to and, for a status fetch, the history id asked for.
NetCall(call, tok, h) ==
    [call |-> call, token |-> tok,
     region |-> IF tok = NoToken THEN "none"
                ELSE IF IsUsToken(tok) THEN "us" ELSE "cn",
     history |-> IF call = "status" THEN PolledHistory(h) ELSE NoHistoryId]

\* The first network call of an operation: the credit check
\* (images.py:287, videos.py:195) or, for a composition, the ticket
\* request of the first upload (images.py:409, 88).
FirstStep(o) == IF o = "image_composition" THEN "upload" ELSE "credit"

\* The calls that may follow a call that went through: "receive" is
\* receive_credit, "submit" the generate request, "status" a fetch of
\* the poller, "download" the GET of a result for b64_json, "done" the
\* return.
Successors(call, calls, n) ==
    CASE call = "credit" -> {"receive", "submit"}
      [] call = "receive" -> {"submit"}
      [] call = "upload" ->
            {"submit"} \cup
            IF Len(SelectSeq(calls, LAMBDA c : c.call = "upload")) < MaxImages
              THEN {"upload"} ELSE {}
      [] call = "submit" -> {"status"}
      [] call = "status" ->
            {"download", "done"} \cup
            IF n < MaxPollCount THEN {"status"} ELSE {}
      [] call = "download" -> {"done"}

\* A JimengClient was constructed (service.py:23-32).
InitClient ==
    /\ cpc = "ready"
    /\ session_ids \in TokenLists
    /\ op = None
    /\ override = Override("none", <<>>)
    /\ token = NoToken
    /\ selections = 0
    /\ step = "done"
    /\ history_id = NoHistoryId
    /\ fetches = 0
    /\ ncalls = <<>>
    /\ cexc = None

\* There is no client.
ClientIdle ==
    /\ cpc = "idle"
    /\ session_ids = <<>>
    /\ op = None
    /\ override = Override("none", <<>>)
    /\ token = NoToken
    /\ selections = 0
    /\ step = "done"
    /\ history_id = NoHistoryId
    /\ fetches = 0
    /\ ncalls = <<>>
    /\ cexc = None

\* generate_image, image_composition or generate_video is called and
\* selects its token (service.py:101, 127, 157).
ClientBegin ==
    /\ cpc = "ready"
    /\ \E o \in Ops, ov \in Overrides :
        \E out \in ChooseToken(ov, session_ids) :
            /\ op' = o
            /\ override' = ov
            /\ selections' = 1
            /\ history_id' = NoHistoryId
            /\ fetches' = 0
            /\ ncalls' = <<>>
            /\ IF out[1] = "raise"
                 THEN /\ cpc' = "raised"
                      /\ cexc' = out[2]
                      /\ token' = NoToken
                      /\ step' = "done"
                 ELSE /\ cpc' = "running"
                      /\ cexc' = None
                      /\ token' = out[2]
                      /\ step' = FirstStep(o)
    /\ UNCHANGED session_ids

\* The running operation makes its next network call; the call raises,
\* which ends the operation, or goes through (images.py:287-380,
\* 408-532, videos.py:195-233, service.py:166-168, 185-186).  A
\* submission that went through answers a history id or none; without
\* one the operation raises (images.py:375-377, 527-529,
\* videos.py:221-224).
ClientCall ==
    /\ cpc = "running"
    /\ LET tok == IF step = "download" THEN NoToken ELSE RefreshToken(token)
       IN  ncalls' = Append(ncalls, NetCall(step, tok, history_id))
    /\ fetches' = IF step = "status" THEN fetches + 1 ELSE fetches
    /\ \/ /\ cpc' = "raised"
          /\ cexc' = JimengAPIError("network error", <<>>)
          /\ step' = "done"
          /\ UNCHANGED history_id
       \/ /\ step = "submit"
          /\ \E h \in {NoHistoryId} \cup HistoryIds :
               /\ history_id' = h
               /\ IF HasHistoryId(h)
                    THEN /\ step' \in Successors(step, ncalls', fetches')
                         /\ cpc' = "running"
                         /\ UNCHANGED cexc
                    ELSE /\ step' = "done"
                         /\ cpc' = "raised"
                         /\ cexc' = JimengAPIError("no history id", <<>>)
       \/ /\ step # "submit"
          /\ \E nx \in Successors(step, ncalls', fetches') :
               /\ step' = nx
               /\ cpc' = IF nx = "done" THEN "returned" ELSE "running"
               /\ UNCHANGED cexc
          /\ UNCHANGED history_id
    /\ UNCHANGED <<session_ids, op, override, token, selections>>

NextClient ==
    \/ ClientBegin /\ UNCHANGED <<pollVars, reqVars, upVars, genVars, svcVars, liveVars, sigVars, compVars, plugVars, sessVars, chooseVars>>
    \/ ClientCall /\ UNCHANGED <<pollVars, reqVars, upVars, genVars, svcVars, liveVars, sigVars, compVars, plugVars, sessVars, chooseVars>>

\* ------------------------------------- images: poll and extract
\* An item of a history record, as far as _extract_urls reads it
\* (images.py:232-238): image.large_images is absent (or its first entry
\* has no image_url), is an empty list, or gives a URL; and one of
\* common_attr.cover_url, image_url and url gives a URL or none does.
Item(large, fallback) == [large_images |-> large, fallback |-> fallback]
\* The fallback is read only when large_images gives no URL and does not
\* raise, so the other shapes are drawn without one.
Items ==
    { Item("absent", fallback) : fallback \in BOOLEAN }
        \cup { Item("empty", FALSE), Item("url", FALSE) }

\* python's IndexError, raised by [][0] (images.py:234).
IndexError == [type |-> "IndexError", status_code |-> <<>>]

\* The url _extract_urls finds in an item (images.py:232-238): <<>> when
\* there is none.
ItemUrl_LargeOnly(item) ==
    IF item.large_images = "url" THEN <<"image.large_images[0].image_url">>
    ELSE <<>>

ItemUrl(item) ==
    IF item.large_images = "url" THEN <<"image.large_images[0].image_url">>
    ELSE IF item.fallback THEN <<"cover_url">>
    ELSE <<>>

\* _extract_urls (images.py:229-241): <<"return", urls>>, or
\* <<"raise", IndexError>> at the first item whose large_images is empty.
RECURSIVE ExtractUrls(_)
ExtractUrls(items) ==
    IF items = <<>> THEN <<"return", <<>>>>
    ELSE IF items[1].large_images = "empty" THEN <<"raise", IndexError>>
    ELSE LET rest == ExtractUrls(Tail(items))
         IN  IF rest[1] = "raise" THEN rest
             ELSE <<"return", ItemUrl(items[1]) \o rest[2]>>

\* generate_images has submitted and built its poller
\* (images.py:369-379): SmartPoller(expected_item_count=1).
InitGenerate ==
    /\ InitPoll
    /\ self.expected_item_count = 1
    /\ gpc = "polling"
    /\ item_list = <<>>
    /\ urls = <<>>
    /\ gexc = None

\* generate_images is not running.
GenerateIdle ==
    /\ gpc = "idle"
    /\ item_list = <<>>
    /\ urls = <<>>
    /\ gexc = None

\* poll() raised: the exception leaves generate_images (images.py:380).
GeneratePollRaised ==
    /\ gpc = "polling"
    /\ pc = "raised"
    /\ gpc' = "raised"
    /\ gexc' = [type |-> exc, status_code |-> <<>>]
    /\ UNCHANGED <<item_list, urls>>

\* poll() returned: the urls are extracted from the item list of the
\* record and returned, unless there is none (images.py:380-385).
GenerateExtract ==
    /\ gpc = "polling"
    /\ pc = "returned"
    /\ \E items \in [1..result[2].items -> Items] :
        LET out == ExtractUrls(items)
        IN  /\ item_list' = items
            /\ IF out[1] = "raise"
                 THEN gpc' = "raised" /\ gexc' = out[2] /\ UNCHANGED urls
               ELSE IF out[2] = <<>>
                 THEN /\ gpc' = "raised"
                      /\ gexc' = JimengAPIError("no image generated", <<>>)
                      /\ UNCHANGED urls
               ELSE gpc' = "returned" /\ urls' = out[2] /\ UNCHANGED gexc

NextGenerate ==
    \/ GeneratePollRaised /\ UNCHANGED <<pollVars, reqVars, upVars, cliVars, svcVars, liveVars, sigVars, compVars, plugVars, sessVars, chooseVars>>
    \/ GenerateExtract /\ UNCHANGED <<pollVars, reqVars, upVars, cliVars, svcVars, liveVars, sigVars, compVars, plugVars, sessVars, chooseVars>>

\* ------------------------------------- jimeng_service: lifecycle
\* start() refuses a service whose client has no session id
\* (jimeng_service.py:26).
CanStart(ids) == ids # <<>>

\* The value start() gives _running (jimeng_service.py:28).
StartRunning(r) == TRUE

\* Mutant of StopRunning: stop() leaves _running as it is.
StopRunning_Keeps(r) == r

\* The value stop() gives _running (jimeng_service.py:31).
StopRunning(r) == FALSE

\* is_running() (jimeng_service.py:33-34).
IsRunning == running

\* An entry of the call history: the method and whether it returned.
ServiceCall(method, ok) == [method |-> method, ok |-> ok]

\* The methods that hand the call to the client
\* (jimeng_service.py:42-60).
Proxies ==
    {"check_session_status", "get_points", "generate_image",
     "image_composition", "generate_video"}

\* Mutant of EnsureRunning: _ensure_running never raises.
EnsureRunning_Always(r) == TRUE

\* _ensure_running passes (jimeng_service.py:65-67).
EnsureRunning(r) == r

\* What the client method does with a call that reached it: it returns,
\* or raises its JimengAPIError.
ClientOutcomes == {<<>>, <<JimengAPIError("client", <<>>)>>}

\* The last call: its method, _running when it was made, whether it
\* reached the client, and its exception, <<>> when it returned.
ServiceLast(method, was_running, reached, e) ==
    [method |-> method, was_running |-> was_running, reached |-> reached,
     exc |-> e]

\* __init__ has built the client and set _running = False
\* (jimeng_service.py:17-18).
InitService ==
    /\ spc = "constructing"
    /\ running = FALSE
    /\ service_ids \in TokenLists
    /\ auto_start \in BOOLEAN
    /\ scalls = <<>>
    /\ slast = <<>>

\* There is no service.
ServiceIdle ==
    /\ spc = "idle"
    /\ running = FALSE
    /\ service_ids = <<>>
    /\ auto_start = FALSE
    /\ scalls = <<>>
    /\ slast = <<>>

\* The end of __init__ (jimeng_service.py:19-20): start() when auto_start;
\* its exception leaves the constructor and there is no service.
ServiceConstruct ==
    /\ spc = "constructing"
    /\ IF ~auto_start
         THEN spc' = "ready" /\ UNCHANGED <<running, scalls, slast>>
       ELSE IF CanStart(service_ids)
         THEN /\ running' = StartRunning(running)
              /\ scalls' = Append(scalls, ServiceCall("start", TRUE))
              /\ slast' = <<ServiceLast("start", running, FALSE, <<>>)>>
              /\ spc' = "ready"
       ELSE /\ scalls' = Append(scalls, ServiceCall("start", FALSE))
            /\ slast' = <<ServiceLast("start", running, FALSE,
                                   <<JimengAPIError("no session_id", <<>>)>>)>>
            /\ spc' = "failed"
            /\ UNCHANGED running
    /\ UNCHANGED <<service_ids, auto_start>>

\* start() (jimeng_service.py:25-28).
ServiceStart ==
    /\ spc = "ready"
    /\ Len(scalls) < MaxCalls
    /\ IF CanStart(service_ids)
         THEN /\ running' = StartRunning(running)
              /\ scalls' = Append(scalls, ServiceCall("start", TRUE))
              /\ slast' = <<ServiceLast("start", running, FALSE, <<>>)>>
         ELSE /\ scalls' = Append(scalls, ServiceCall("start", FALSE))
              /\ slast' = <<ServiceLast("start", running, FALSE,
                                     <<JimengAPIError("no session_id", <<>>)>>)>>
              /\ UNCHANGED running
    /\ UNCHANGED <<spc, service_ids, auto_start>>

\* stop() (jimeng_service.py:30-31).
ServiceStop ==
    /\ spc = "ready"
    /\ Len(scalls) < MaxCalls
    /\ running' = StopRunning(running)
    /\ scalls' = Append(scalls, ServiceCall("stop", TRUE))
    /\ slast' = <<ServiceLast("stop", running, FALSE, <<>>)>>
    /\ UNCHANGED <<spc, service_ids, auto_start>>

\* set_session_ids(session_ids) (jimeng_service.py:36-37,
\* service.py:42-46).
ServiceSetSessionIds ==
    /\ spc = "ready"
    /\ Len(scalls) < MaxCalls
    /\ \E ids \in TokenLists : service_ids' = ids
    /\ scalls' = Append(scalls, ServiceCall("set_session_ids", TRUE))
    /\ slast' = <<ServiceLast("set_session_ids", running, TRUE, <<>>)>>
    /\ UNCHANGED <<spc, running, auto_start>>

\* check_session_status, get_points, generate_image, image_composition
\* or generate_video (jimeng_service.py:42-60): _ensure_running, then the
\* client's method of the same name.
ServiceProxy ==
    /\ spc = "ready"
    /\ \E method \in Proxies :
        IF EnsureRunning(running)
          THEN \E e \in ClientOutcomes :
                 slast' = <<ServiceLast(method, running, TRUE, e)>>
          ELSE slast' = <<ServiceLast(method, running, FALSE,
                                   <<JimengAPIError("not started", <<>>)>>)>>
    /\ UNCHANGED <<spc, running, service_ids, auto_start, scalls>>

NextService ==
    \/ ServiceConstruct /\ UNCHANGED <<pollVars, reqVars, upVars, cliVars, genVars, liveVars, sigVars, compVars, plugVars, sessVars, chooseVars>>
    \/ ServiceStart /\ UNCHANGED <<pollVars, reqVars, upVars, cliVars, genVars, liveVars, sigVars, compVars, plugVars, sessVars, chooseVars>>
    \/ ServiceStop /\ UNCHANGED <<pollVars, reqVars, upVars, cliVars, genVars, liveVars, sigVars, compVars, plugVars, sessVars, chooseVars>>
    \/ ServiceSetSessionIds /\ UNCHANGED <<pollVars, reqVars, upVars, cliVars, genVars, liveVars, sigVars, compVars, plugVars, sessVars, chooseVars>>
    \/ ServiceProxy /\ UNCHANGED <<pollVars, reqVars, upVars, cliVars, genVars, liveVars, sigVars, compVars, plugVars, sessVars, chooseVars>>

\* --------------------------------- service: check_session_status
\* The value request() returned is python's None: the "data" of a
\* success envelope that is absent or null (core.py:133).
IsNone(value) == value.kind = "data" /\ value.value \in {None, "null"}

\* The handler of get_token_live_status (core.py:268): which exceptions
\* of request() it catches.
Caught(e) == e.type = "JimengAPIError"

\* check_session_status has chosen its token and get_token_live_status
\* calls request(), not streaming (service.py:72-73, core.py:260-266).
InitLive ==
    /\ InitRequest
    /\ stream = FALSE
    /\ lpc = "request"
    /\ user_id = <<>>
    /\ live = <<>>
    /\ lexc = None

\* check_session_status is not running.
LiveIdle ==
    /\ lpc = "idle"
    /\ user_id = <<>>
    /\ live = <<>>
    /\ lexc = None

\* request() raised (core.py:268-269): a caught exception gives False,
\* any other leaves get_token_live_status and check_session_status.
LiveRequestRaised ==
    /\ lpc = "request"
    /\ rpc = "raised"
    /\ IF Caught(rexc)
         THEN live' = <<FALSE>> /\ lpc' = "returned" /\ UNCHANGED lexc
         ELSE lexc' = rexc /\ lpc' = "raised" /\ UNCHANGED live
    /\ UNCHANGED user_id

\* request() returned (core.py:267, service.py:74): bool of the user_id
\* of the result; result.get on None raises AttributeError.
LiveRequestReturned ==
    /\ lpc = "request"
    /\ rpc = "returned"
    /\ IF IsNone(rret)
         THEN IF Caught(AttributeError)
                THEN live' = <<FALSE>> /\ lpc' = "returned"
                                       /\ UNCHANGED <<lexc, user_id>>
                ELSE lexc' = AttributeError /\ lpc' = "raised"
                                            /\ UNCHANGED <<live, user_id>>
         ELSE \E uid \in BOOLEAN :
                /\ user_id' = <<uid>>
                /\ live' = <<uid>>
                /\ lpc' = "returned"
                /\ UNCHANGED lexc

NextLive ==
    \/ LiveRequestRaised /\ UNCHANGED <<pollVars, reqVars, upVars, cliVars, genVars, svcVars, sigVars, compVars, plugVars, sessVars, chooseVars>>
    \/ LiveRequestReturned /\ UNCHANGED <<pollVars, reqVars, upVars, cliVars, genVars, svcVars, sigVars, compVars, plugVars, sessVars, chooseVars>>

\* ------------------------------- aws_signature: create_signature
\* Digests are symbolic and injective: hashlib.sha256(x).hexdigest() and
\* hmac.new(key, msg, sha256) (aws_signature.py:8-9).
Sha256(x) == <<"sha256", x>>
Hmac(key, msg) == <<"hmac", key, msg>>

\* Methods as callers write them, and str.upper() on them.
Methods == {"GET", "POST", "post"}
Upper(m) == IF m = "post" THEN "POST" ELSE m

\* A URL as urlsplit reads it (aws_signature.py:24): the path and the
\* query pairs in the order written.
Url(path, query) == [path |-> path, query |-> query]
Urls ==
    {Url("", <<"Action=a", "Version=v">>),
     Url("/", <<"Version=v", "Action=a">>),
     Url("/upload", <<>>)}

\* parsed.path or "/" (aws_signature.py:25).
Pathname(url) == IF url.path = "" THEN "/" ELSE url.path

\* The sorted query pairs joined by "&" (aws_signature.py:26-27): the
\* same for every order of the same pairs, so the set of the pairs.
CanonicalQuery(url) == { url.query[i] : i \in DOMAIN url.query }

\* An x-amz-date timestamp, "%Y%m%dT%H%M%SZ" (images.py:58-59), as
\* <<date, time>>; timestamp[:8] is the date (aws_signature.py:30).
Timestamps == {<<"20260101", "T000000Z">>, <<"20260101", "T000001Z">>}
Date(timestamp) == timestamp[1]

\* The parameter session_token: None (<<>>), the empty string, or a
\* token; `if session_token` (aws_signature.py:35).
SessionTokens == {<<>>, <<"">>, Credential("session_token", 1)}
Truthy(x) == x # <<>> /\ x # <<"">>

\* The parameter payload: the empty string (<<>>, the default) or the
\* text json.dumps gives for a session key (images.py:163).
JsonDumps(session_key) == <<"SessionKey", session_key>>
Payloads == {<<>>, JsonDumps("key1")}

\* The header names of the model in sorted order (aws_signature.py:44,
\* 47).
HeaderNames ==
    <<"authorization", "content-type", "x-amz-content-sha256", "x-amz-date",
      "x-amz-security-token">>

\* The parameter headers: without x-amz-date, with it, and with it and
\* one more header.
NoHeaders == [name \in {} |-> <<>>]
HeaderSets ==
    {NoHeaders} \cup
    { ("x-amz-date" :> ts) : ts \in Timestamps } \cup
    { ("x-amz-date" :> ts) @@ ("content-type" :> <<"application/json">>) :
        ts \in Timestamps }

\* python's KeyError, raised by headers["x-amz-date"]
\* (aws_signature.py:29).
KeyError == [type |-> "KeyError", status_code |-> <<>>]

\* Mutant of HeadersToSign: every header passed in is signed as well.
HeadersToSign_All(headers, session_token, method, payload) ==
    LET base == ("x-amz-date" :> headers["x-amz-date"])
        tok  == IF Truthy(session_token)
                  THEN base @@ ("x-amz-security-token" :> session_token)
                  ELSE base
    IN  (IF Upper(method) # "POST" \/ payload = <<>> THEN tok
         ELSE tok @@ ("x-amz-content-sha256" :> Sha256(payload))) @@ headers

\* headers_to_sign (aws_signature.py:34-42).
HeadersToSign(headers, session_token, method, payload) ==
    LET base == ("x-amz-date" :> headers["x-amz-date"])
        tok  == IF Truthy(session_token)
                  THEN base @@ ("x-amz-security-token" :> session_token)
                  ELSE base
    IN  IF Upper(method) # "POST" \/ payload = <<>> THEN tok
        ELSE tok @@ ("x-amz-content-sha256" :> Sha256(payload))

\* Mutant of PayloadHash: the hash of the payload whatever the method.
PayloadHash_OfPayload(method, payload) == Sha256(payload)

\* payload_hash (aws_signature.py:38-40).
PayloadHash(method, payload) ==
    IF Upper(method) # "POST" \/ payload = <<>> THEN Sha256(<<>>)
    ELSE Sha256(payload)

\* signed_headers (aws_signature.py:44): the sorted names.
SignedHeaders(hs) == SelectSeq(HeaderNames, LAMBDA name : name \in DOMAIN hs)

\* canonical_request (aws_signature.py:44-59).  Header values of the
\* model carry no surrounding blanks, which strip() would remove.
CanonicalRequest(method, url, headers, session_token, payload) ==
    LET hs    == HeadersToSign(headers, session_token, method, payload)
        names == SignedHeaders(hs)
    IN  [method            |-> Upper(method),
         pathname          |-> Pathname(url),
         canonical_query   |-> CanonicalQuery(url),
         canonical_headers |-> [i \in DOMAIN names |-> <<names[i], hs[names[i]]>>],
         signed_headers    |-> names,
         payload_hash      |-> PayloadHash(method, payload)]

\* scope and string_to_sign (aws_signature.py:31-32, 61-69).
Scope(timestamp) == <<Date(timestamp), "cn-north-1", "imagex", "aws4_request">>
StringToSign(timestamp, canonical_request) ==
    <<"AWS4-HMAC-SHA256", timestamp, Scope(timestamp),
      Sha256(canonical_request)>>

\* k_signing (aws_signature.py:71-74).
SigningKey(secret_access_key, timestamp) ==
    Hmac(Hmac(Hmac(Hmac(<<"AWS4", secret_access_key>>, Date(timestamp)),
                   <<"cn-north-1">>), <<"imagex">>), <<"aws4_request">>)

\* create_signature (aws_signature.py:12-77): <<"return", authorization>>
\* or <<"raise", error>>.
CreateSignature(method, url, headers, access_key_id, secret_access_key, session_token, payload) ==
    IF "x-amz-date" \notin DOMAIN headers THEN <<"raise", KeyError>>
    ELSE LET timestamp == headers["x-amz-date"]
             cr == CanonicalRequest(method, url, headers, session_token,
                                    payload)
         IN  <<"return",
               [algorithm      |-> "AWS4-HMAC-SHA256",
                credential     |-> <<access_key_id, Scope(timestamp)>>,
                signed_headers |-> cr.signed_headers,
                signature      |-> Hmac(SigningKey(secret_access_key,
                                                   timestamp),
                                        StringToSign(timestamp, cr))]>>

\* The arguments of a create_signature call.
SignArgs(method, url, headers, access_key_id, secret_access_key, session_token, payload) ==
    [method |-> method, url |-> url, headers |-> headers,
     access_key_id |-> access_key_id,
     secret_access_key |-> secret_access_key,
     session_token |-> session_token, payload |-> payload]

\* No request is sent, and no call was made.
NoWire == [method |-> "none"]
NoSign == [caller |-> "none"]

\* A create_signature call: who made it, its arguments, its local
\* canonical_request (when it got that far), its outcome, and the
\* request its caller then sent.
Signing(caller, a, wire) ==
    [caller |-> caller,
     args   |-> a,
     canonical_request |->
        IF "x-amz-date" \in DOMAIN a.headers
          THEN <<CanonicalRequest(a.method, a.url, a.headers,
                                  a.session_token, a.payload)>>
          ELSE <<>>,
     out    |-> CreateSignature(a.method, a.url, a.headers, a.access_key_id,
                                a.secret_access_key, a.session_token,
                                a.payload),
     wire   |-> wire]

\* The tickets _upload_buffer goes on with (images.py:100).
CompleteTickets == { t \in Tickets(1) \cup Tickets(2) : TicketComplete(t) }

\* apply_url and commit_url (images.py:105-111, 162).
ApplyUrl(is_us) ==
    Url("/", <<"Action=ApplyImageUpload", "Version=2018-08-01", "ServiceId",
               "FileSize", "s">>
             \o (IF is_us THEN <<"device_platform=web">> ELSE <<>>))
CommitUrl ==
    Url("/", <<"Action=CommitImageUpload", "Version=2018-08-01", "ServiceId">>)

\* The headers of the apply request that the signature is about
\* (images.py:125-133); the fixed accept, origin, referer and user-agent
\* are left out.
ApplyHeaders(timestamp, session_token, authorization) ==
    ("authorization" :> authorization) @@ ("x-amz-date" :> timestamp) @@
    ("x-amz-security-token" :> session_token)

\* Mutant of CommitHeaders: the content hash sent is that of no payload.
CommitHeaders_EmptyHash(timestamp, session_token, payload_hash, authorization) ==
    ("authorization" :> authorization) @@
    ("content-type" :> <<"application/json">>) @@
    ("x-amz-date" :> timestamp) @@
    ("x-amz-security-token" :> session_token) @@
    ("x-amz-content-sha256" :> Sha256(<<>>))

\* commit_headers (images.py:180-187); the fixed user-agent is left out.
CommitHeaders(timestamp, session_token, payload_hash, authorization) ==
    ("authorization" :> authorization) @@
    ("content-type" :> <<"application/json">>) @@
    ("x-amz-date" :> timestamp) @@
    ("x-amz-security-token" :> session_token) @@
    ("x-amz-content-sha256" :> payload_hash)

\* No create_signature call was made yet.
InitSign ==
    /\ sgpc = "ready"
    /\ cur = NoSign
    /\ prev = NoSign

\* There is no signer.
SignIdle ==
    /\ sgpc = "idle"
    /\ cur = NoSign
    /\ prev = NoSign

\* Some caller calls create_signature (aws_signature.py:12-77).
SignCall ==
    /\ sgpc = "ready"
    /\ prev = NoSign
    /\ \E method \in Methods, url \in Urls, headers \in HeaderSets,
          n \in {1, 2}, session_token \in SessionTokens,
          payload \in Payloads :
        cur' = Signing("any",
                       SignArgs(method, url, headers,
                                Credential("access_key_id", n),
                                Credential("secret_access_key", n),
                                session_token, payload),
                       NoWire)
    /\ prev' = cur
    /\ UNCHANGED sgpc

\* _upload_buffer signs and sends the apply request (images.py:104-134).
SignApply ==
    /\ sgpc = "ready"
    /\ prev = NoSign
    /\ \E t \in CompleteTickets, timestamp \in Timestamps, is_us \in BOOLEAN :
        LET headers_for_sig ==
                ("x-amz-date" :> timestamp) @@
                ("x-amz-security-token" :> t.session_token)
            a == SignArgs("GET", ApplyUrl(is_us), headers_for_sig,
                          t.access_key_id, t.secret_access_key,
                          t.session_token, <<>>)
            authorization ==
                CreateSignature(a.method, a.url, a.headers, a.access_key_id,
                                a.secret_access_key, a.session_token,
                                a.payload)[2]
        IN  cur' = Signing("apply", a,
                           [method  |-> "GET",
                            url     |-> ApplyUrl(is_us),
                            headers |-> ApplyHeaders(timestamp,
                                                     t.session_token,
                                                     authorization),
                            body    |-> <<>>])
    /\ prev' = cur
    /\ UNCHANGED sgpc

\* _upload_buffer signs and sends the commit request (images.py:162-194).
SignCommit ==
    /\ sgpc = "ready"
    /\ prev = NoSign
    /\ \E t \in CompleteTickets, commit_timestamp \in Timestamps,
          session_key \in {"key1", "key2"} :
        LET commit_payload == JsonDumps(session_key)
            payload_hash == Sha256(commit_payload)
            commit_headers_for_sig ==
                ("x-amz-date" :> commit_timestamp) @@
                ("x-amz-security-token" :> t.session_token) @@
                ("x-amz-content-sha256" :> payload_hash)
            a == SignArgs("POST", CommitUrl, commit_headers_for_sig,
                          t.access_key_id, t.secret_access_key,
                          t.session_token, commit_payload)
            commit_authorization ==
                CreateSignature(a.method, a.url, a.headers, a.access_key_id,
                                a.secret_access_key, a.session_token,
                                a.payload)[2]
        IN  cur' = Signing("commit", a,
                           [method  |-> "POST",
                            url     |-> CommitUrl,
                            headers |-> CommitHeaders(commit_timestamp,
                                                      t.session_token,
                                                      payload_hash,
                                                      commit_authorization),
                            body    |-> commit_payload])
    /\ prev' = cur
    /\ UNCHANGED sgpc

NextSign ==
    \/ SignCall /\ UNCHANGED <<pollVars, reqVars, upVars, cliVars, genVars, svcVars, liveVars, compVars, plugVars, sessVars, chooseVars>>
    \/ SignApply /\ UNCHANGED <<pollVars, reqVars, upVars, cliVars, genVars, svcVars, liveVars, compVars, plugVars, sessVars, chooseVars>>
    \/ SignCommit /\ UNCHANGED <<pollVars, reqVars, upVars, cliVars, genVars, svcVars, liveVars, compVars, plugVars, sessVars, chooseVars>>

\* ------------------------------ images: generate_image_composition
\* The most images a composition takes (images.py:401).
ImageLimit == 10

\* A list of one image more than the limit.
TooManyImages == [i \in 1..(ImageLimit + 1) |-> Source("bytes", FALSE)]

\* Mutant of Accepted: the length is not limited.
Accepted_NoLimit(imgs) == imgs # <<>>

\* The two tests on the image list (images.py:399-402).
Accepted(imgs) == imgs # <<>> /\ Len(imgs) <= ImageLimit

\* generate_image_composition is called (images.py:388-398): nothing was
\* uploaded yet.
InitComposition ==
    /\ kpc = "validate"
    /\ kcalls = <<>>
    /\ kexc = None
    /\ upc = "idle"
    /\ images \in UNION { [1..n -> Sources] : n \in 0..MaxImages }
                    \cup {TooManyImages}
    /\ asset = 0
    /\ ticket = NoTicket
    /\ results = <<>>
    /\ tickets = 0
    /\ ucalls = <<>>
    /\ uploaded = <<>>
    /\ uexc = None

\* generate_image_composition is not running.
CompositionIdle ==
    /\ kpc = "idle"
    /\ kcalls = <<>>
    /\ kexc = None

\* The tests on the image list, the model and the resolution
\* (images.py:399-406); then the uploads start with the first image
\* (images.py:408-411).
CompositionValidate ==
    /\ kpc = "validate"
    /\ \E supported \in BOOLEAN :
        IF ~Accepted(images)
          THEN /\ kpc' = "raised"
               /\ kexc' = JimengAPIError("image count", <<>>)
               /\ UNCHANGED <<upc, asset>>
        ELSE IF ~supported
          THEN /\ kpc' = "raised"
               /\ kexc' = JimengAPIError("unsupported", <<>>)
               /\ UNCHANGED <<upc, asset>>
        ELSE /\ kpc' = "uploading"
             /\ upc' = "normalize"
             /\ asset' = 1
             /\ UNCHANGED kexc
    /\ UNCHANGED <<kcalls, images, ticket, results, tickets, ucalls,
                   uploaded, uexc>>

\* An upload raised: the exception leaves the list comprehension and
\* generate_image_composition (images.py:408-411).
CompositionUploadRaised ==
    /\ kpc = "uploading"
    /\ upc = "raised"
    /\ kpc' = "raised"
    /\ kexc' = uexc
    /\ UNCHANGED <<kcalls, upVars>>

\* Every image is uploaded: the submission (images.py:521-529), which
\* raises, returns no history id, or returns one.
CompositionSubmit ==
    /\ kpc = "uploading"
    /\ upc = "uploaded"
    /\ kcalls' = Append(kcalls, "submit")
    /\ \E outcome \in {"raise", "no id", "id"} :
        CASE outcome = "raise" ->
                kpc' = "raised" /\ kexc' = JimengAPIError("request", <<>>)
          [] outcome = "no id" ->
                kpc' = "raised" /\ kexc' = JimengAPIError("no history id", <<>>)
          [] outcome = "id" -> kpc' = "polling" /\ UNCHANGED kexc
    /\ UNCHANGED upVars

\* A status fetch of the poll (images.py:531-532): it raises, the poll
\* goes on, or the poll ends and the urls are extracted or found missing
\* (images.py:534-537).
CompositionFetch ==
    /\ kpc = "polling"
    /\ Len(kcalls) <= MaxPollCount
    /\ kcalls' = Append(kcalls, "fetch")
    /\ \E outcome \in {"raise", "again", "urls", "no urls"} :
        /\ outcome = "again" => Len(kcalls) < MaxPollCount
        /\ CASE outcome = "raise" ->
                  kpc' = "raised" /\ kexc' = JimengAPIError("request", <<>>)
             [] outcome = "again" -> UNCHANGED <<kpc, kexc>>
             [] outcome = "urls" -> kpc' = "returned" /\ UNCHANGED kexc
             [] outcome = "no urls" ->
                  kpc' = "raised" /\ kexc' = JimengAPIError("no image", <<>>)
    /\ UNCHANGED upVars

NextComposition ==
    \/ CompositionValidate /\ UNCHANGED <<pollVars, reqVars, cliVars, genVars, svcVars, liveVars, sigVars, plugVars, sessVars, chooseVars>>
    \/ CompositionUploadRaised /\ UNCHANGED <<pollVars, reqVars, cliVars, genVars, svcVars, liveVars, sigVars, plugVars, sessVars, chooseVars>>
    \/ CompositionSubmit /\ UNCHANGED <<pollVars, reqVars, cliVars, genVars, svcVars, liveVars, sigVars, plugVars, sessVars, chooseVars>>
    \/ CompositionFetch /\ UNCHANGED <<pollVars, reqVars, cliVars, genVars, svcVars, liveVars, sigVars, plugVars, sessVars, chooseVars>>

\* ------------------------------------- main: JimengServicePlugin
\* The plugin's service: a JimengAPIService with its _running flag and
\* the session ids of its client, or None (main.py:39).
Service(r, ids) == [exists |-> TRUE, running |-> r, session_ids |-> ids]
NoService == [exists |-> FALSE, running |-> FALSE, session_ids |-> <<>>]

\* An entry of the command history.
Command(name, was_running) == [name |-> name, was_running |-> was_running]

\* list.remove(token): the first occurrence goes (main.py:396).
RECURSIVE RemoveFirst(_, _)
RemoveFirst(ids, t) ==
    IF ids = <<>> THEN <<>>
    ELSE IF ids[1] = t THEN Tail(ids)
    ELSE <<ids[1]>> \o RemoveFirst(Tail(ids), t)

\* The loop of session_add (main.py:374-377) and of session_remove
\* (main.py:394-397) over the tokens given.
RECURSIVE AddAll(_, _)
AddAll(ids, ts) ==
    IF ts = <<>> THEN ids
    ELSE AddAll(IF ts[1] \in Range(ids) THEN ids ELSE Append(ids, ts[1]),
                Tail(ts))
RECURSIVE RemoveAll(_, _)
RemoveAll(ids, ts) ==
    IF ts = <<>> THEN ids
    ELSE RemoveAll(IF ts[1] \in Range(ids) THEN RemoveFirst(ids, ts[1])
                   ELSE ids,
                   Tail(ts))

\* _ensure_service (main.py:690-698): the service is built, not started,
\* or given the plugin's session ids.
EnsureService(svc, ids) ==
    IF ~svc.exists THEN Service(FALSE, ids)
    ELSE Service(svc.running, ids)

\* service.start() inside a handler that catches its JimengAPIError
\* (main.py:56-59, 108-113, 707-711; jimeng_service.py:25-28).
TryStart(svc) ==
    IF CanStart(svc.session_ids)
      THEN Service(StartRunning(svc.running), svc.session_ids)
      ELSE svc

\* Mutant of SyncServiceSessions: an emptied list does not stop the
\* service.
SyncServiceSessions_NoStop(svc, ids, stop_on_empty) ==
    IF ~svc.exists THEN svc ELSE Service(svc.running, ids)

\* _sync_service_sessions (main.py:714-718).
SyncServiceSessions(svc, ids, stop_on_empty) ==
    IF ~svc.exists THEN svc
    ELSE IF stop_on_empty /\ ids = <<>> /\ svc.running
      THEN Service(StopRunning(svc.running), ids)
    ELSE Service(svc.running, ids)

\* _ensure_ready (main.py:700-712): the service the handler goes on with,
\* started if it was not running.
EnsureReady(svc, ids) ==
    IF ids = <<>> THEN svc
    ELSE LET s == EnsureService(svc, ids)
         IN  IF ~s.running THEN TryStart(s) ELSE s

\* __init__ has loaded the configuration (main.py:32-46, 720-723).
InitPlugin ==
    /\ ppc = "loaded"
    /\ plugin_ids \in TokenLists
    /\ plugin_auto \in BOOLEAN
    /\ plugin_service = NoService
    /\ pcmd = Command("__init__", FALSE)

\* There is no plugin.
PluginIdle ==
    /\ ppc = "idle"
    /\ plugin_ids = <<>>
    /\ plugin_auto = FALSE
    /\ plugin_service = NoService
    /\ pcmd = Command("none", FALSE)

\* initialize (main.py:48-60).
PluginInitialize ==
    /\ ppc = "loaded"
    /\ ppc' = "ready"
    /\ plugin_service' =
         IF plugin_auto /\ plugin_ids # <<>>
           THEN TryStart(EnsureService(plugin_service, plugin_ids))
           ELSE plugin_service
    /\ pcmd' = Command("initialize", plugin_service.running)
    /\ UNCHANGED <<plugin_ids, plugin_auto>>

\* /jimeng start (main.py:96-114).
PluginStart ==
    /\ ppc = "ready"
    /\ plugin_service' =
         IF plugin_ids = <<>> THEN plugin_service
         ELSE LET s == EnsureService(plugin_service, plugin_ids)
              IN  IF s.running THEN s ELSE TryStart(s)
    /\ pcmd' = Command("start", plugin_service.running)
    /\ UNCHANGED <<ppc, plugin_ids, plugin_auto>>

\* /jimeng stop (main.py:116-123).
PluginStop ==
    /\ ppc = "ready"
    /\ plugin_service' =
         IF ~plugin_service.exists \/ ~plugin_service.running
           THEN plugin_service
           ELSE Service(StopRunning(plugin_service.running),
                        plugin_service.session_ids)
    /\ pcmd' = Command("stop", plugin_service.running)
    /\ UNCHANGED <<ppc, plugin_ids, plugin_auto>>

\* /jimeng auto on|off (main.py:316-328).
PluginAuto ==
    /\ ppc = "ready"
    /\ \E state \in BOOLEAN : plugin_auto' = state
    /\ pcmd' = Command("auto", plugin_service.running)
    /\ UNCHANGED <<ppc, plugin_ids, plugin_service>>

\* /jimeng session set (main.py:346-361).
PluginSessionSet ==
    /\ ppc = "ready"
    /\ \E new_tokens \in TokenLists :
        IF new_tokens = <<>>
          THEN UNCHANGED <<plugin_ids, plugin_service>>
          ELSE /\ plugin_ids' = new_tokens
               /\ plugin_service' =
                    SyncServiceSessions(plugin_service, new_tokens, FALSE)
    /\ pcmd' = Command("session set", plugin_service.running)
    /\ UNCHANGED <<ppc, plugin_auto>>

\* /jimeng session add (main.py:363-381).
PluginSessionAdd ==
    /\ ppc = "ready"
    /\ \E new_tokens \in TokenLists :
        LET ids == AddAll(plugin_ids, new_tokens)
        IN  /\ plugin_ids' = ids
            /\ plugin_service' =
                 IF ids # plugin_ids
                   THEN SyncServiceSessions(plugin_service, ids, FALSE)
                   ELSE plugin_service
    /\ pcmd' = Command("session add", plugin_service.running)
    /\ UNCHANGED <<ppc, plugin_auto>>

\* /jimeng session remove (main.py:383-401).
PluginSessionRemove ==
    /\ ppc = "ready"
    /\ \E target_tokens \in TokenLists :
        LET ids == RemoveAll(plugin_ids, target_tokens)
        IN  /\ plugin_ids' = ids
            /\ plugin_service' =
                 IF ids # plugin_ids
                   THEN SyncServiceSessions(plugin_service, ids, TRUE)
                   ELSE plugin_service
    /\ pcmd' = Command("session remove", plugin_service.running)
    /\ UNCHANGED <<ppc, plugin_auto>>

\* /jimeng session clear (main.py:403-409).
PluginSessionClear ==
    /\ ppc = "ready"
    /\ plugin_ids' = <<>>
    /\ plugin_service' = SyncServiceSessions(plugin_service, <<>>, TRUE)
    /\ pcmd' = Command("session clear", plugin_service.running)
    /\ UNCHANGED <<ppc, plugin_auto>>

\* A generation, status or points command or tool: _ensure_ready, then
\* the call on the service, which changes neither the session list nor
\* the running flag (main.py:73-94, 125-313, 411-688).
PluginGenerate ==
    /\ ppc = "ready"
    /\ plugin_service' = EnsureReady(plugin_service, plugin_ids)
    /\ pcmd' = Command("generate", plugin_service.running)
    /\ UNCHANGED <<ppc, plugin_ids, plugin_auto>>

\* terminate (main.py:62-65).
PluginTerminate ==
    /\ ppc = "ready"
    /\ ppc' = "terminated"
    /\ plugin_service' =
         IF plugin_service.exists /\ plugin_service.running
           THEN Service(StopRunning(plugin_service.running),
                        plugin_service.session_ids)
           ELSE plugin_service
    /\ pcmd' = Command("terminate", plugin_service.running)
    /\ UNCHANGED <<plugin_ids, plugin_auto>>

NextPlugin ==
    \/ PluginInitialize /\ UNCHANGED <<pollVars, reqVars, upVars, cliVars, genVars, svcVars, liveVars, sigVars, compVars, sessVars, chooseVars>>
    \/ PluginStart /\ UNCHANGED <<pollVars, reqVars, upVars, cliVars, genVars, svcVars, liveVars, sigVars, compVars, sessVars, chooseVars>>
    \/ PluginStop /\ UNCHANGED <<pollVars, reqVars, upVars, cliVars, genVars, svcVars, liveVars, sigVars, compVars, sessVars, chooseVars>>
    \/ PluginAuto /\ UNCHANGED <<pollVars, reqVars, upVars, cliVars, genVars, svcVars, liveVars, sigVars, compVars, sessVars, chooseVars>>
    \/ PluginSessionSet /\ UNCHANGED <<pollVars, reqVars, upVars, cliVars, genVars, svcVars, liveVars, sigVars, compVars, sessVars, chooseVars>>
    \/ PluginSessionAdd /\ UNCHANGED <<pollVars, reqVars, upVars, cliVars, genVars, svcVars, liveVars, sigVars, compVars, sessVars, chooseVars>>
    \/ PluginSessionRemove /\ UNCHANGED <<pollVars, reqVars, upVars, cliVars, genVars, svcVars, liveVars, sigVars, compVars, sessVars, chooseVars>>
    \/ PluginSessionClear /\ UNCHANGED <<pollVars, reqVars, upVars, cliVars, genVars, svcVars, liveVars, sigVars, compVars, sessVars, chooseVars>>
    \/ PluginGenerate /\ UNCHANGED <<pollVars, reqVars, upVars, cliVars, genVars, svcVars, liveVars, sigVars, compVars, sessVars, chooseVars>>
    \/ PluginTerminate /\ UNCHANGED <<pollVars, reqVars, upVars, cliVars, genVars, svcVars, liveVars, sigVars, compVars, sessVars, chooseVars>>

\* --------------------------------------- service: the session list
\* The tokens a caller supplies: as Tokens, and one with the prefix in
\* lower case.
Supplied == Tokens \cup {<<"us-", "c">>}

\* No element occurs twice.
NoDuplicates(ids) ==
    \A i, j \in 1..Len(ids) : ids[i] = ids[j] => i = j

\* Duplicate-free lists of supplied tokens.
SuppliedLists ==
    { l \in UNION { [1..n -> Supplied] : n \in 0..MaxSessions } :
        NoDuplicates(l) }

\* Mutant of AddSessionId: the token is appended whether present or not.
AddSessionId_Always(ids, t) == Append(ids, t)

\* add_session_id (service.py:48-50).
AddSessionId(ids, t) == IF t \in Range(ids) THEN ids ELSE Append(ids, t)

\* remove_session_id (service.py:52-54).
RemoveSessionId(ids, t) == IF t \in Range(ids) THEN RemoveFirst(ids, t) ELSE ids

\* clear_session_ids (service.py:56-57).
ClearSessionIds(ids) == <<>>

\* normalize_token (core.py:50-51): the token without its region prefix.
NormalizeToken(t) == IF IsUsToken(t) THEN <<"", t[2]>> ELSE t

\* generate_cookie (core.py:59-78): the region and the token its sid,
\* sessionid and sid_guard fields carry.
GenerateCookie(t) ==
    [region |-> IF IsUsToken(t) THEN "us" ELSE "cn-gd",
     token |-> NormalizeToken(t)]

\* An entry of the history: the operation, its token (<<>> for clear),
\* the list before it and the cookie made (<<>> when none).
SessionOp(name, t, before, cookie) ==
    [op |-> name, token |-> t, before |-> before, cookie |-> cookie]

\* The client holds a duplicate-free list (service.py:24-32).
InitSessions ==
    /\ idpc = "ready"
    /\ client_ids \in SuppliedLists
    /\ sess_last = <<>>

\* There is no client.
SessionsIdle ==
    /\ idpc = "idle"
    /\ client_ids = <<>>
    /\ sess_last = <<>>

\* add_session_id(session_id).
SessionAdd ==
    /\ idpc = "ready"
    /\ \E t \in Supplied :
        /\ client_ids' = AddSessionId(client_ids, t)
        /\ sess_last' = <<SessionOp("add", t, client_ids, <<>>)>>
    /\ UNCHANGED idpc

\* remove_session_id(session_id).
SessionRemove ==
    /\ idpc = "ready"
    /\ \E t \in Supplied :
        /\ client_ids' = RemoveSessionId(client_ids, t)
        /\ sess_last' = <<SessionOp("remove", t, client_ids, <<>>)>>
    /\ UNCHANGED idpc

\* clear_session_ids().
SessionClear ==
    /\ idpc = "ready"
    /\ client_ids' = ClearSessionIds(client_ids)
    /\ sess_last' = <<SessionOp("clear", <<>>, client_ids, <<>>)>>
    /\ UNCHANGED idpc

\* A request with one of the tokens builds its cookie (core.py:171,
\* 59-78).
SessionCookie ==
    /\ idpc = "ready"
    /\ \E t \in Range(client_ids) :
        sess_last' = <<SessionOp("cookie", t, client_ids, <<GenerateCookie(t)>>)>>
    /\ UNCHANGED <<idpc, client_ids>>

NextShrink ==
    \/ SessionRemove /\ UNCHANGED <<pollVars, reqVars, upVars, cliVars, genVars, svcVars, liveVars, sigVars, compVars, plugVars, chooseVars>>
    \/ SessionClear /\ UNCHANGED <<pollVars, reqVars, upVars, cliVars, genVars, svcVars, liveVars, sigVars, compVars, plugVars, chooseVars>>

NextSessions ==
    \/ SessionAdd /\ UNCHANGED <<pollVars, reqVars, upVars, cliVars, genVars, svcVars, liveVars, sigVars, compVars, plugVars, chooseVars>>
    \/ SessionCookie /\ UNCHANGED <<pollVars, reqVars, upVars, cliVars, genVars, svcVars, liveVars, sigVars, compVars, plugVars, chooseVars>>
    \/ NextShrink

\* ---------------------- service: _choose_token beside another thread
\* _choose_token(None) runs in one thread while another thread calls
\* remove_session_id and clear_session_ids on the same client.  tokens is
\* the list object _session_ids itself (service.py:63), so each step of
\* _choose_token reads the list as the other thread has left it.

\* The exception random.choice raises for an empty sequence, and
\* list.__getitem__ for an index past the end.
ChoiceIndexError == [type |-> "IndexError", status_code |-> <<>>]

\* The truth test of service.py:64.
HasTokens(ids) == ids # <<>>

\* The indices random.choice may draw for a sequence of this length.
Draws(ids) == 1..Len(ids)

\* _choose_token was called with no override (service.py:59-63).
InitChoose ==
    /\ tpc = "called"
    /\ called_ids = client_ids
    /\ tidx = 0
    /\ chosen = <<>>
    /\ texc = <<>>

\* No _choose_token is running.
ChooseIdle ==
    /\ tpc = "idle"
    /\ called_ids = <<>>
    /\ tidx = 0
    /\ chosen = <<>>
    /\ texc = <<>>

\* if not tokens: raise JimengAPIError (service.py:64-65).
ChooseTest ==
    /\ tpc = "called"
    /\ IF HasTokens(client_ids)
         THEN tpc' = "tested" /\ UNCHANGED texc
         ELSE /\ tpc' = "raised"
              /\ texc' = <<JimengAPIError("no session_id", <<>>)>>
    /\ UNCHANGED <<called_ids, tidx, chosen>>

\* random.choice(tokens), first half (service.py:66): the length is read
\* and an index is drawn; an empty sequence is an IndexError.
ChooseDraw ==
    /\ tpc = "tested"
    /\ IF client_ids = <<>>
         THEN /\ tpc' = "raised"
              /\ texc' = <<ChoiceIndexError>>
              /\ UNCHANGED tidx
         ELSE /\ \E i \in Draws(client_ids) : tidx' = i
              /\ tpc' = "sized"
              /\ UNCHANGED texc
    /\ UNCHANGED <<called_ids, chosen>>

\* random.choice(tokens), second half (service.py:66): the element at
\* the index is read and returned.
ChooseIndex ==
    /\ tpc = "sized"
    /\ IF tidx > Len(client_ids)
         THEN /\ tpc' = "raised"
              /\ texc' = <<ChoiceIndexError>>
              /\ UNCHANGED chosen
         ELSE /\ tpc' = "returned"
              /\ chosen' = <<client_ids[tidx]>>
              /\ UNCHANGED texc
    /\ UNCHANGED <<called_ids, tidx>>

NextChoose ==
    \/ ChooseTest /\ UNCHANGED <<pollVars, reqVars, upVars, cliVars, genVars, svcVars, liveVars, sigVars, compVars, plugVars, sessVars>>
    \/ ChooseDraw /\ UNCHANGED <<pollVars, reqVars, upVars, cliVars, genVars, svcVars, liveVars, sigVars, compVars, plugVars, sessVars>>
    \/ ChooseIndex /\ UNCHANGED <<pollVars, reqVars, upVars, cliVars, genVars, svcVars, liveVars, sigVars, compVars, plugVars, sessVars>>

\* ------------------------------------------------- specifications
\* A run of SmartPoller.poll.
InitPollRun == InitPoll /\ RequestIdle /\ UploadIdle /\ ClientIdle /\
    GenerateIdle /\
    ServiceIdle /\
    LiveIdle /\
    SignIdle /\
    CompositionIdle /\
    PluginIdle /\
    SessionsIdle /\
    ChooseIdle
SpecPoll == InitPollRun /\ [][NextPoll]_vars

\* A call of core.request.
InitRequestCall == PollIdle /\ InitRequest /\ UploadIdle /\ ClientIdle /\
    GenerateIdle /\
    ServiceIdle /\
    LiveIdle /\
    SignIdle /\
    CompositionIdle /\
    PluginIdle /\
    SessionsIdle /\
    ChooseIdle
SpecRequest == InitRequestCall /\ [][NextRequest]_vars

\* The uploads of one generate_image_composition call.
InitUploadRun == PollIdle /\ RequestIdle /\ InitUpload /\ ClientIdle /\
    GenerateIdle /\
    ServiceIdle /\
    LiveIdle /\
    SignIdle /\
    CompositionIdle /\
    PluginIdle /\
    SessionsIdle /\
    ChooseIdle
SpecUpload == InitUploadRun /\ [][NextUpload]_vars

\* A JimengClient and its generating operations.
InitClientRun == PollIdle /\ RequestIdle /\ UploadIdle /\ InitClient /\
    GenerateIdle /\
    ServiceIdle /\
    LiveIdle /\
    SignIdle /\
    CompositionIdle /\
    PluginIdle /\
    SessionsIdle /\
    ChooseIdle
SpecClient == InitClientRun /\ [][NextClient]_vars

\* generate_images from its poll on.
InitGenerateRun == InitGenerate /\ RequestIdle /\ UploadIdle /\ ClientIdle /\
    ServiceIdle /\
    LiveIdle /\
    SignIdle /\
    CompositionIdle /\
    PluginIdle /\
    SessionsIdle /\
    ChooseIdle
NextGenerateRun == NextPoll \/ NextGenerate
SpecGenerate == InitGenerateRun /\ [][NextGenerateRun]_vars

\* A JimengAPIService and its lifecycle calls.
InitServiceRun == PollIdle /\ RequestIdle /\ UploadIdle /\ ClientIdle /\
    GenerateIdle /\
    InitService /\
    LiveIdle /\
    SignIdle /\
    CompositionIdle /\
    PluginIdle /\
    SessionsIdle /\
    ChooseIdle
SpecService == InitServiceRun /\ [][NextService]_vars

\* check_session_status from its request on.
InitLiveRun == PollIdle /\ InitLive /\ UploadIdle /\ ClientIdle /\
    GenerateIdle /\
    ServiceIdle /\
    SignIdle /\
    CompositionIdle /\
    PluginIdle /\
    SessionsIdle /\
    ChooseIdle
NextLiveRun == NextRequest \/ NextLive
SpecLive == InitLiveRun /\ [][NextLiveRun]_vars

\* create_signature and the signed storage calls of an upload.
InitSignRun == PollIdle /\ RequestIdle /\ UploadIdle /\ ClientIdle /\
    GenerateIdle /\
    ServiceIdle /\
    LiveIdle /\
    InitSign /\
    CompositionIdle /\
    PluginIdle /\
    SessionsIdle /\
    ChooseIdle
SpecSign == InitSignRun /\ [][NextSign]_vars

\* generate_image_composition: tests, uploads, submission, poll.
InitCompositionRun == PollIdle /\ RequestIdle /\ ClientIdle /\
    GenerateIdle /\
    ServiceIdle /\
    LiveIdle /\
    SignIdle /\
    InitComposition /\
    PluginIdle /\
    SessionsIdle /\
    ChooseIdle
NextCompositionRun == NextUpload \/ NextComposition
SpecComposition == InitCompositionRun /\ [][NextCompositionRun]_vars

\* The plugin and its commands.
InitPluginRun == PollIdle /\ RequestIdle /\ UploadIdle /\ ClientIdle /\
    GenerateIdle /\
    ServiceIdle /\
    LiveIdle /\
    SignIdle /\
    CompositionIdle /\
    InitPlugin /\
    SessionsIdle /\
    ChooseIdle
SpecPlugin == InitPluginRun /\ [][NextPlugin]_vars

\* The session list of a client and the operations on it.
InitSessionsRun == PollIdle /\ RequestIdle /\ UploadIdle /\ ClientIdle /\
    GenerateIdle /\
    ServiceIdle /\
    LiveIdle /\
    SignIdle /\
    CompositionIdle /\
    PluginIdle /\
    InitSessions /\
    ChooseIdle
SpecSessions == InitSessionsRun /\ [][NextSessions]_vars

\* _choose_token in one thread, remove_session_id and clear_session_ids
\* in another.
InitChooseRun == PollIdle /\ RequestIdle /\ UploadIdle /\ ClientIdle /\
    GenerateIdle /\
    ServiceIdle /\
    LiveIdle /\
    SignIdle /\
    CompositionIdle /\
    PluginIdle /\
    InitSessions /\
    InitChoose
NextChooseRun == NextChoose \/ NextShrink
SpecChoose == InitChooseRun /\ [][NextChooseRun]_vars

Init ==
    \/ InitPollRun
    \/ InitRequestCall
    \/ InitUploadRun
    \/ InitClientRun
    \/ InitGenerateRun
    \/ InitServiceRun
    \/ InitLiveRun
    \/ InitSignRun
    \/ InitCompositionRun
    \/ InitPluginRun
    \/ InitSessionsRun
    \/ InitChooseRun
Next ==
    \/ NextPoll
    \/ NextRequest
    \/ NextUpload
    \/ NextClient
    \/ NextGenerate
    \/ NextService
    \/ NextLive
    \/ NextSign
    \/ NextComposition
    \/ NextPlugin
    \/ NextSessions
    \/ NextChoose
Spec == Init /\ [][Next]_vars

\* ------------------------------------------------------------ claims
\* A round of poll() whose fetch returned has been decided: poll()
\* returned, raised the timeout, or is about to sleep.
RoundDecided ==
    /\ pc \in {"returned", "raised", "sleep"}
    /\ poll_count > 0
    /\ Len(items_seen) = poll_count

\* The run of poll() has ended and every fetch of it returned.
RunEnded == pc \in {"returned", "raised"} /\ Len(items_seen) = poll_count

Deadline == self.timeout_seconds * 10

AllItemsZero == \A i \in 1..Len(items_seen) : items_seen[i] = 0

RaisedTimeout ==
    pc = "raised" /\ exc = "JimengPollingTimeout" /\ result = None

Returned(reason) ==
    pc = "returned" /\ result # None /\ result[1].exit_reason = reason
    /\ exc = None

\* C1 (as stated): a run in which every fetch reports item_count 0 and the
\* elapsed time exceeds timeout_seconds never returns a PollingResult.
C1_ZeroItemsPastDeadlineNeverReturns ==
    ~(pc = "returned" /\ AllItemsZero /\ elapsed > Deadline)

\* C1 (amended): a round that fetches item_count 0 with the elapsed time at
\* or past timeout_seconds raises JimengPollingTimeout and returns nothing,
\* provided its status is not terminal, it is not round max_poll_count and
\* expected_item_count is positive.
C1_ZeroItemsTimeoutRaises ==
    (/\ RoundDecided
     /\ status.item_count = 0
     /\ elapsed >= Deadline
     /\ status.status \notin TerminalStatuses
     /\ poll_count < self.max_poll_count
     /\ self.expected_item_count > 0)
    => RaisedTimeout

\* C1 witness: a run of two fetches, both with zero items, that raised the
\* timeout.
C1_Witness ==
    RaisedTimeout /\ AllItemsZero /\ Len(items_seen) = 2 /\ elapsed > Deadline

\* C2: JimengPollingTimeout is raised only in a round with
\* elapsed >= timeout_seconds and item_count 0; a round with a positive
\* item_count at the deadline returns a PollingResult instead.
C2_TimeoutOnlyWithZeroItems ==
    /\ exc = "JimengPollingTimeout"
         => /\ RoundDecided
            /\ pc = "raised"
            /\ elapsed >= Deadline
            /\ status.item_count = 0
            /\ result = None
    /\ (RoundDecided /\ status.item_count > 0 /\ elapsed >= Deadline)
         => pc = "returned" /\ result # None /\ exc = None

\* C2 witness: the deadline was reached with items and no other rule
\* matched: poll() returned "timeout with partial results".
C2_Witness ==
    Returned("timeout partial") /\ status.item_count > 0
    /\ elapsed >= Deadline

\* C3 (as stated): whenever poll() ends by raising, it is the zero-item
\* timeout.
C3_OnlyTimeoutRaises == pc = "raised" => exc = "JimengPollingTimeout"

\* C3 (amended): poll() itself raises only JimengPollingTimeout, on the
\* zero-item timeout; a run whose fetches all returned ends in no other
\* way than that or by returning a PollingResult; an exception of the
\* fetch function leaves poll() as it is.
C3_RaisesTimeoutOrFetchError ==
    /\ RunEnded =>
         \/ /\ RaisedTimeout
            /\ status.item_count = 0
            /\ elapsed >= Deadline
         \/ /\ pc = "returned"
            /\ exc = None
            /\ result # None
            /\ result[1].exit_reason \in
                 {"completed", "failed", "reached expected", "stable",
                  "round limit", "timeout partial"}
    /\ (pc = "raised" /\ ~RunEnded) =>
         exc \in FetchErrors /\ result = None

\* C3 witness: the fetch function raised in the second round.
C3_Witness ==
    pc = "raised" /\ exc = "JimengAPIError" /\ poll_count = 2
    /\ Len(items_seen) = 1

\* C4: the outcome of a round is that of the first matching rule, in the
\* order terminal status, expected count, stability, round limit, timeout
\* with items, timeout without items (raise), sleep.
C4_FirstMatchingRule ==
    RoundDecided =>
      LET terminal == status.status \in TerminalStatuses
          enough   == status.item_count >= self.expected_item_count
          stable   == stable_rounds >= self.stable_rounds
                      /\ status.item_count > 0
          limit    == poll_count >= self.max_poll_count
          late     == elapsed >= Deadline
      IN  /\ terminal =>
                Returned(IF status.status = 30 THEN "failed" ELSE "completed")
          /\ (~terminal /\ enough) => Returned("reached expected")
          /\ (~terminal /\ ~enough /\ stable) => Returned("stable")
          /\ (~terminal /\ ~enough /\ ~stable /\ limit)
                => Returned("round limit")
          /\ (~terminal /\ ~enough /\ ~stable /\ ~limit /\ late
              /\ status.item_count > 0) => Returned("timeout partial")
          /\ (~terminal /\ ~enough /\ ~stable /\ ~limit /\ late
              /\ status.item_count = 0) => RaisedTimeout
          /\ (~terminal /\ ~enough /\ ~stable /\ ~limit /\ ~late)
                => pc = "sleep" /\ result = None /\ exc = None

\* C4 witness: stability, the round limit and the deadline all match in
\* one round, and the round ends as "stable".
C4_Witness ==
    /\ Returned("stable")
    /\ poll_count >= self.max_poll_count
    /\ elapsed >= Deadline

\* C5: a run whose fetches are in-progress, in-progress, success, with
\* item_count below expected_item_count on the first two and reaching it
\* on the third, ends on the third fetch with exit reason "completed" and
\* poll_count 3.
C5_InProgressTwiceThenSuccess ==
    (/\ RoundDecided
     /\ Len(items_seen) = 3
     /\ items_seen[1] < self.expected_item_count
     /\ items_seen[2] < self.expected_item_count
     /\ status.status \in {10, 50}
     /\ items_seen[3] >= self.expected_item_count)
    => /\ Returned("completed")
       /\ result[1].poll_count = 3
       /\ poll_count = 3
       /\ Len(slept) = 2

\* C5 witness: such a run, the items arriving with the success status.
C5_Witness ==
    /\ Returned("completed")
    /\ items_seen = <<0, 0, self.expected_item_count>>
    /\ self.expected_item_count > 0
    /\ status.status = 10

\* The last k fetches of the run all reported c items.
LastFetchesAll(k, c) ==
    /\ Len(items_seen) >= k
    /\ \A i \in 1..Len(items_seen) :
         i > Len(items_seen) - k => items_seen[i] = c

\* C6: a run without terminal status in which item_count stays at one
\* positive value for stable_rounds rounds after the round that first
\* reported it (a stability round is a fetch whose count equals that of
\* the fetch before it) ends with exit reason "stable with partial
\* results", in the round that completes the stable_rounds repeats.
C6_ConstantPositiveEndsStable ==
    (/\ RoundDecided
     /\ status.status \notin TerminalStatuses
     /\ status.item_count > 0
     /\ LastFetchesAll(self.stable_rounds + 1, status.item_count))
    => /\ Returned("stable")
       /\ result[1].item_count = status.item_count
       /\ stable_rounds = self.stable_rounds

\* C6 witness: three fetches of one item each, stable_rounds 2, ended as
\* "stable".
C6_Witness ==
    /\ Returned("stable")
    /\ items_seen = <<1, 1, 1>>
    /\ self.stable_rounds = 2

\* C7: a fetched status of 10 or 50 makes poll() return in that round
\* with exit reason "completed", 30 with "failed"; the PollingResult has
\* the status, fail_code and item_count of that fetch and comes with the
\* payload of that fetch.
C7_TerminalStatusReturnsRecord ==
    (RoundDecided /\ status.status \in TerminalStatuses)
    => /\ Returned(IF status.status = 30 THEN "failed" ELSE "completed")
       /\ result[1].status = status.status
       /\ result[1].fail_code = status.fail_code
       /\ result[1].item_count = status.item_count
       /\ result[1].item_count = items_seen[Len(items_seen)]
       /\ result[1].poll_count = Len(items_seen)
       /\ result[2] = data
       /\ result[2] = Payload(poll_count, status.item_count)

\* C7 witness: a failed job with a failure code, reported on the second
\* fetch.
C7_Witness ==
    /\ Returned("failed")
    /\ result[1].fail_code = "2038"
    /\ result[1].poll_count = 2

\* The wait the poller owes after a round of status st, in tenths.
WaitFor(st) ==
    IF st = 42 THEN self.poll_interval * 12
    ELSE IF st = 45 THEN self.poll_interval * 15
    ELSE self.poll_interval * 10

\* C8: after a round that does not stop polling, poll() waits
\* poll_interval x 1.2 for status 42, x 1.5 for status 45 and
\* poll_interval for any other status, before the next fetch.
C8_WaitByStatus ==
    /\ pc = "sleep" => interval = WaitFor(status.status)
    /\ (pc = "loop" /\ poll_count > 0) =>
         /\ Len(slept) = poll_count
         /\ slept[poll_count] = WaitFor(status.status)
         /\ clock = elapsed + WaitFor(status.status)

\* C8 witness: the poller has waited 1.5 x poll_interval after a round of
\* status 45 and is about to fetch again.
C8_Witness ==
    /\ pc = "loop"
    /\ poll_count = 1
    /\ status.status = 45
    /\ slept = <<self.poll_interval * 15>>

\* The call of request() ended by raising after an attempt that failed
\* transiently: a network exception or an HTTP status >= 400.
RaisedOnTransientFailure ==
    /\ rpc = "raised"
    /\ \/ resp = RequestException
       \/ resp.kind = "response" /\ resp.status_code >= 400

\* C9: a call whose every attempt fails transiently makes exactly
\* MAX_RETRY_COUNT retries, MAX_RETRY_COUNT + 1 attempts, and then raises.
C9_ExactlyMaxRetries ==
    RaisedOnTransientFailure =>
        /\ retries = max_retries
        /\ attempts = max_retries + 1
        /\ delays = max_retries

\* C10: once the retry budget is exhausted the failure is raised as a
\* JimengAPIError, which carries the last HTTP status code when the last
\* attempt got a response.
C10_ExhaustedRaisesJimengAPIError ==
    (RaisedOnTransientFailure /\ retries = max_retries) =>
        /\ rexc.type = "JimengAPIError"
        /\ resp.kind = "response" =>
             rexc.status_code = <<resp.status_code>>

\* request() ended by applying check_result to a JSON response: the call
\* does not stream and the last attempt got a status below 400.
CheckResultApplied ==
    /\ rpc \in {"returned", "raised"}
    /\ ~stream
    /\ resp.kind = "response"
    /\ resp.status_code < 400
    /\ resp.body.json

\* The message the server sent with a failure: "errmsg", else the "msg"
\* of "data", else none (the fixed text is used).
ServerMessage(body) ==
    IF body.errmsg # None THEN body.errmsg
    ELSE IF body.data = "object with msg" THEN "data.msg"
    ELSE "request failed"

\* C11: check_result returns the whole payload when "ret" is absent,
\* returns the nested "data" when "ret" is 0, and otherwise raises a
\* JimengAPIError carrying the server message and the HTTP status; "data"
\* is never returned when "ret" is present and not 0.
C11_CheckResultThreeWay ==
    CheckResultApplied =>
        /\ resp.body.ret = None =>
              /\ rpc = "returned"
              /\ rret = [kind |-> "payload", value |-> resp.body]
        /\ resp.body.ret = "0" =>
              /\ rpc = "returned"
              /\ rret.kind = "data"
        /\ resp.body.ret \notin {None, "0"} =>
              /\ rpc = "raised"
              /\ rexc.type = "JimengAPIError"
              /\ rexc.message = ServerMessage(resp.body)
              /\ rexc.status_code = <<resp.status_code>>
        /\ (rpc = "returned" /\ rret.kind = "data") => resp.body.ret = "0"

\* The calls _upload_buffer made for asset n, in order, and their names.
BufferCalls(n) ==
    SelectSeq(ucalls, LAMBDA c :
        c.asset = n /\ c.call \in {"ticket", "apply", "put", "commit"})
CallNames(n) == [i \in 1..Len(BufferCalls(n)) |-> BufferCalls(n)[i].call]
CallsOf(n, call) == SelectSeq(ucalls, LAMBDA c : c.asset = n /\ c.call = call)
UploadOrder == <<"ticket", "apply", "put", "commit">>
IsPrefix(a, b) == Len(a) <= Len(b) /\ \A i \in 1..Len(a) : a[i] = b[i]

\* The upload of asset n returned its URI.
UploadSucceeded(n) == n <= Len(uploaded)

\* C12: for every asset the calls of _upload_buffer are a prefix of
\* ticket request, apply, put, commit, each issued only after the one
\* before it went through; an upload that returned made all four calls,
\* and no asset has more than one commit call.
C12_FixedPhaseOrder ==
    \A n \in 1..Len(images) :
        /\ IsPrefix(CallNames(n), UploadOrder)
        /\ \A i \in 2..Len(BufferCalls(n)) : BufferCalls(n)[i - 1].ok
        /\ UploadSucceeded(n) => CallNames(n) = UploadOrder
        /\ Len(CallsOf(n, "commit")) <= 1

C12_Witness ==
    /\ upc = "uploaded"
    /\ Len(images) = MaxImages
    /\ \A n \in 1..Len(images) : CallNames(n) = UploadOrder

\* The ticket request of the current asset returned a ticket that lacks a
\* credential field.
CredentialFields == {"access_key_id", "secret_access_key", "session_token"}
TicketLacksField ==
    /\ ticket.id # 0
    /\ ticket.id = tickets
    /\ ucalls[Len(ucalls)].asset = asset
    /\ \E f \in CredentialFields : ticket[f] = <<>>

\* C13: a ticket that lacks the access key id, the secret access key or
\* the session token makes the upload fail with a JimengAPIError, and no
\* apply, put or commit call is issued for the asset.
C13_IncompleteTicketFails ==
    TicketLacksField =>
        /\ upc = "raised"
        /\ uexc.type = "JimengAPIError"
        /\ CallNames(asset) = <<"ticket">>

C13_Witness ==
    /\ TicketLacksField
    /\ ticket.access_key_id # <<>>
    /\ ticket.secret_access_key # <<>>
    /\ upc = "raised"
    /\ CallNames(asset) = <<"ticket">>

\* C14: a put answered by anything but a 2xx status (or not answered)
\* fails the upload: the put is made once, no commit call follows, and no
\* URI is returned for the asset.
C14_PutNon2xxIsFatal ==
    \A n \in 1..Len(images) :
        LET puts == CallsOf(n, "put")
        IN  /\ Len(puts) <= 1
            /\ (Len(puts) = 1 /\ puts[1].status \notin 200..299) =>
                  /\ upc = "raised"
                  /\ asset = n
                  /\ CallsOf(n, "commit") = <<>>
                  /\ ~UploadSucceeded(n)

\* The last call was a commit that the storage service answered with a
\* status raise_for_status accepts: the result list was inspected.
LastCall == ucalls[Len(ucalls)]
CommitInspected ==
    /\ ucalls # <<>>
    /\ LastCall.call = "commit"
    /\ LastCall.status # 0
    /\ LastCall.status < 400

\* C15: the URI of an asset is returned only when the per-file status of
\* the commit result is 2000; an empty result list or another status
\* raises a JimengAPIError whose message carries the raw payload, and no
\* URI is returned for the asset.
C15_UriOnlyOnStatus2000 ==
    /\ CommitInspected =>
         IF results # <<>> /\ results[1].UriStatus = 2000
           THEN /\ UploadSucceeded(LastCall.asset)
                /\ uploaded[LastCall.asset] = results[1].Uri
                /\ ~(upc = "raised" /\ asset = LastCall.asset)
           ELSE /\ ~UploadSucceeded(LastCall.asset)
                /\ upc = "raised"
                /\ uexc.type = "JimengAPIError"
                /\ uexc.message[2] =
                     IF results = <<>> THEN results ELSE results[1]
    /\ \A n \in 1..Len(uploaded) :
         /\ CallsOf(n, "commit") # <<>>
         /\ CallsOf(n, "commit")[1].ok

C15_Witness ==
    /\ CommitInspected
    /\ results # <<>>
    /\ results[1].UriStatus # 2000
    /\ upc = "raised"
    /\ uploaded = <<>>

\* The normalization steps _upload_image made for asset n, and whether
\* the normalization of asset n is over.
NormalizeCalls(n) ==
    SelectSeq(ucalls, LAMBDA c :
        c.asset = n /\ c.call \in {"raw", "fetch", "read", "decode"})
ReadAttempts(n) ==
    SelectSeq(ucalls, LAMBDA c :
        c.asset = n /\ c.call \in {"fetch", "read", "decode"})
Normalized(n) == n < asset \/ (n = asset /\ upc # "normalize")
Position(n, call) ==
    CHOOSE i \in 1..Len(ucalls) : ucalls[i].asset = n /\ ucalls[i].call = call

\* C16: every _upload_image call on a str or bytes source takes exactly
\* one of the four paths and makes at most one read attempt; a failed
\* path ends the call, and the path is taken before the ticket request.
C16_ExactlyOnePath ==
    \A n \in 1..Len(images) :
        (Normalized(n) /\ images[n].type \in {"str", "bytes"}) =>
            /\ Len(NormalizeCalls(n)) = 1
            /\ Len(ReadAttempts(n)) <= 1
            /\ ~NormalizeCalls(n)[1].ok => (upc = "raised" /\ asset = n)
            /\ CallsOf(n, "ticket") # <<>> =>
                 Position(n, NormalizeCalls(n)[1].call) < Position(n, "ticket")

\* The signature made with the credentials of the n-th ticket.
SignedWithTicket(n) ==
    [credential |-> <<"access_key_id", n>>,
     key |-> <<"secret_access_key", n>>,
     token |-> <<"session_token", n>>]

\* C17: one ticket is requested for each asset whose _upload_buffer
\* started, so a composition that uploaded its N images requested N
\* tickets, and the apply and the commit call of an asset are signed with
\* the credentials of the ticket requested for that asset.
C17_OneTicketPerAsset ==
    /\ \A n \in 1..Len(images) :
         /\ Len(CallsOf(n, "ticket")) <= 1
         /\ UploadSucceeded(n) => Len(CallsOf(n, "ticket")) = 1
    /\ tickets = Cardinality({ n \in 1..Len(images) : CallsOf(n, "ticket") # <<>> })
    /\ upc = "uploaded" => tickets = Len(images)
    /\ \A i \in 1..Len(ucalls) :
         ucalls[i].call \in {"apply", "commit"} =>
             ucalls[i].auth = SignedWithTicket(ucalls[i].asset)

C17_Witness ==
    /\ upc = "uploaded"
    /\ Len(images) = MaxImages
    /\ tickets = MaxImages
    /\ Len(CallsOf(MaxImages, "commit")) = 1

\* An operation has made its _choose_token call: the call raised or
\* returned the local token.
Chose == cpc \in {"running", "returned", "raised"}
ChoseAndRaised == cpc = "raised" /\ token = NoToken /\ ncalls = <<>>
ChoseAndReturned == Chose /\ token # NoToken
NoOverride == override.kind = "none"

\* C18: with no override, _choose_token on an empty configured list
\* raises the "no session" JimengAPIError, and on a configured list of
\* exactly one token it returns that token.
C18_EmptyRaisesSingleReturns ==
    (Chose /\ NoOverride) =>
        /\ session_ids = <<>> =>
              /\ ChoseAndRaised
              /\ cexc = JimengAPIError("no session_id", <<>>)
        /\ Len(session_ids) = 1 =>
              /\ ChoseAndReturned
              /\ token = session_ids[1]

C18_Witness ==
    /\ Chose
    /\ NoOverride
    /\ Len(session_ids) = 1
    /\ token = session_ids[1]
    /\ cpc = "running"

\* The tokens an override gives: none for None, "" and an empty sequence.
OverrideSet == { override.tokens[i] : i \in 1..Len(override.tokens) }
ConfiguredSet == { session_ids[i] : i \in 1..Len(session_ids) }

\* C19: _choose_token returns a member of the override set when an
\* override is given and a member of the configured set otherwise, and it
\* raises exactly when both are empty.
C19_MemberOfChosenSet ==
    Chose =>
        /\ ChoseAndRaised <=> (OverrideSet = {} /\ ConfiguredSet = {})
        /\ ~ChoseAndRaised =>
              /\ OverrideSet # {} => token \in OverrideSet
              /\ OverrideSet = {} => token \in ConfiguredSet

C19_Witness ==
    /\ Chose
    /\ override.kind = "seq"
    /\ Len(override.tokens) = 2
    /\ ConfiguredSet # {}
    /\ token \in OverrideSet
    /\ token \notin ConfiguredSet

\* The calls that are given a token: every call but the plain download
\* of a result URL.
TokenCalls == {"credit", "receive", "upload", "submit", "status"}

\* C20: an operation selects its token once, before any network call,
\* and its credit check, uploads, submission and status fetches all use
\* that token and its region; after a failed call no further call is
\* made.
C20_OneTokenPerOperation ==
    Chose =>
        /\ selections = 1
        /\ token = NoToken => ncalls = <<>>
        /\ \A i \in 1..Len(ncalls) :
             ncalls[i].call \in TokenCalls =>
                /\ ncalls[i].token = token
                /\ ncalls[i].region = IF Lower(token[1]) = "us-" THEN "us" ELSE "cn"
        /\ cpc = "raised" => step = "done"

C20_Witness ==
    /\ cpc = "raised"
    /\ Len(session_ids) = 2
    /\ session_ids[1] # session_ids[2]
    /\ token = session_ids[2]
    /\ Len(SelectSeq(ncalls, LAMBDA c : c.call = "status")) = 2
    /\ \E i \in 1..Len(ncalls) : ncalls[i].call = "credit"

\* The submissions and the status fetches among the network calls of the
\* operation.
Submissions == SelectSeq(ncalls, LAMBDA c : c.call = "submit")
StatusFetches == SelectSeq(ncalls, LAMBDA c : c.call = "status")

\* C21: an operation makes at most one submission; a status fetch is
\* made only after a submission that returned a history id, and every
\* status fetch asks for that history id.
C21_OneSubmissionOnePolledJob ==
    /\ Len(Submissions) <= 1
    /\ StatusFetches # <<>> =>
         /\ Len(Submissions) = 1
         /\ history_id \in HistoryIds
         /\ \A i \in 1..Len(StatusFetches) :
              StatusFetches[i].history = history_id
    /\ (Len(Submissions) = 1 /\ history_id = "") => StatusFetches = <<>>
    /\ \A i \in 1..Len(ncalls) :
         ncalls[i].call = "status" =>
            \E j \in 1..(i - 1) : ncalls[j].call = "submit"

C21_Witness ==
    /\ cpc = "returned"
    /\ history_id = "h2"
    /\ Len(Submissions) = 1
    /\ Len(StatusFetches) = 2
    /\ \A i \in 1..Len(StatusFetches) : StatusFetches[i].history = "h2"

\* The poller of generate_images has expected_item_count 1 and its first
\* status fetch, the only one so far, reported status 10 with one item.
FirstFetchDoneWithOneItem ==
    /\ gpc # "idle"
    /\ self.expected_item_count = 1
    /\ poll_count = 1
    /\ Len(items_seen) = 1
    /\ status.status = 10
    /\ status.item_count = 1

RECURSIVE LastLifecycleIsStart(_)
LastLifecycleIsStart(calls) ==
    IF calls = <<>> THEN FALSE
    ELSE LET c == calls[Len(calls)]
         IN  IF c.ok /\ c.method \in {"start", "stop"}
               THEN c.method = "start"
             ELSE LastLifecycleIsStart(SubSeq(calls, 1, Len(calls) - 1))

\* C23: after any sequence of start, stop and set_session_ids calls on a
\* JimengAPIService, is_running() is true exactly when the last start() or
\* stop() that returned was a start(): a start() with a session makes it
\* true, a stop() makes it false, a start() after a stop() makes it true
\* again, and a start() that raised changes nothing.
C23_RunningReflectsLastCall ==
    spc = "ready" => (IsRunning <=> LastLifecycleIsStart(scalls))

\* C23 witness: start, stop and start again, each returned, and the
\* service is running.
C23_Witness ==
    /\ spc = "ready"
    /\ Len(scalls) >= 3
    /\ scalls[1] = ServiceCall("start", TRUE)
    /\ scalls[2] = ServiceCall("stop", TRUE)
    /\ scalls[3] = ServiceCall("start", TRUE)
    /\ Len(scalls) = 3
    /\ IsRunning

\* C24: check_session_status always answers {live: bool}: live is true
\* when the account-info call returns a user id, false when that call
\* fails at the backend (non-success envelope, network failure, or an HTTP
\* error status that survived the retries); a backend failure never
\* leaves it as an exception.
C24_LiveNeverRaises ==
    (lpc # "idle" /\ rpc \in {"returned", "raised"} /\ lpc # "request") =>
        /\ lpc = "returned"
        /\ live \in {<<TRUE>>, <<FALSE>>}
        /\ rpc = "raised" => live = <<FALSE>>
        /\ (rpc = "returned" /\ user_id # <<>>) => live = user_id

\* Two create_signature calls were given the same method, URL,
\* x-amz-date timestamp, access key, secret key, session token and
\* payload.
SameSignerInputs(a, b) ==
    /\ "x-amz-date" \in DOMAIN a.headers
    /\ "x-amz-date" \in DOMAIN b.headers
    /\ a.headers["x-amz-date"] = b.headers["x-amz-date"]
    /\ a.method = b.method
    /\ a.url = b.url
    /\ a.access_key_id = b.access_key_id
    /\ a.secret_access_key = b.secret_access_key
    /\ a.session_token = b.session_token
    /\ a.payload = b.payload

\* C25: create_signature is deterministic: two calls with identical
\* method, URL, x-amz-date timestamp, access key, secret key, session
\* token and payload return the identical authorization, whatever call
\* came before and whatever other headers were passed.
C25_SameInputsSameAuthorization ==
    (prev # NoSign /\ SameSignerInputs(prev.args, cur.args)) =>
        /\ cur.out[1] = "return"
        /\ prev.out[1] = "return"
        /\ cur.out[2] = prev.out[2]

\* C25 witness: two calls that agree on the named inputs and differ in
\* another header.
C25_Witness ==
    /\ prev # NoSign
    /\ SameSignerInputs(prev.args, cur.args)
    /\ prev.args.headers # cur.args.headers
    /\ cur.out[2] = prev.out[2]

\* The names create_signature signed in its last call.
SignedNames ==
    LET names == cur.canonical_request[1].signed_headers
    IN  { names[i] : i \in DOMAIN names }

\* C28: create_signature signs x-amz-date always, x-amz-security-token
\* exactly when a session token is given, x-amz-content-sha256 exactly
\* when the method is POST and the payload is not empty, and nothing else;
\* in every other case the payload hash of the canonical request is the
\* hash of the empty byte string.
C28_SignedHeaderSet ==
    (cur # NoSign /\ cur.out[1] = "return") =>
        LET a    == cur.args
            post == Upper(a.method) = "POST" /\ a.payload # <<>>
        IN  /\ "x-amz-date" \in SignedNames
            /\ "x-amz-security-token" \in SignedNames
                   <=> Truthy(a.session_token)
            /\ "x-amz-content-sha256" \in SignedNames <=> post
            /\ SignedNames \subseteq
                   {"x-amz-date", "x-amz-security-token",
                    "x-amz-content-sha256"}
            /\ cur.out[2].signed_headers
                   = cur.canonical_request[1].signed_headers
            /\ ~post => cur.canonical_request[1].payload_hash = Sha256(<<>>)
            /\ post => cur.canonical_request[1].payload_hash
                           = Sha256(a.payload)

\* C28 witness: a call with a payload whose method is not POST, with a
\* session token: two headers are signed and the hash is the empty one.
C28_Witness ==
    /\ cur # NoSign
    /\ cur.out[1] = "return"
    /\ cur.args.method = "GET"
    /\ cur.args.payload # <<>>
    /\ Truthy(cur.args.session_token)
    /\ SignedNames = {"x-amz-date", "x-amz-security-token"}
    /\ cur.canonical_request[1].payload_hash = Sha256(<<>>)

\* C29: in the apply and the commit call of an upload the x-amz-date
\* header sent is the timestamp given to the signer, and the commit's
\* x-amz-content-sha256 header is the SHA-256 of the body sent, which is
\* the payload the signature covers.
C29_WireMatchesSigned ==
    (cur # NoSign /\ cur.caller \in {"apply", "commit"}) =>
        /\ cur.out[1] = "return"
        /\ cur.wire.headers["x-amz-date"] = cur.args.headers["x-amz-date"]
        /\ cur.wire.headers["authorization"] = cur.out[2]
        /\ cur.caller = "commit" =>
             /\ cur.wire.headers["x-amz-content-sha256"]
                    = Sha256(cur.wire.body)
             /\ cur.args.payload = cur.wire.body
             /\ "x-amz-content-sha256" \in SignedNames
             /\ cur.canonical_request[1].payload_hash = Sha256(cur.wire.body)

\* C29 witness: an apply call and then a commit call were signed and
\* sent.
C29_Witness ==
    /\ prev # NoSign
    /\ prev.caller = "apply"
    /\ cur.caller = "commit"
    /\ cur.wire.body # <<>>
    /\ cur.wire.headers["x-amz-date"] = cur.args.headers["x-amz-date"]

\* C26: in each round whose fetch returned, poll() compares the fetched
\* item count with the remembered one: unchanged, the stability counter
\* goes up by one; changed, the counter is reset to zero and the new
\* count is remembered.  This happens in every such round, also in the
\* round that ends the run, and before the exit rules: a run that ends
\* as "stable" ends on the updated counter.
C26_StabilityUpdatedEveryRound ==
    [][ Len(items_seen') = Len(items_seen) + 1 =>
          LET n == items_seen'[Len(items_seen')]
          IN  /\ IF n = last_item_count
                   THEN /\ stable_rounds' = stable_rounds + 1
                        /\ last_item_count' = last_item_count
                   ELSE /\ stable_rounds' = 0
                        /\ last_item_count' = n
              /\ (pc' = "returned" /\ result'[1].exit_reason = "stable") =>
                     /\ stable_rounds' >= self.stable_rounds
                     /\ n = last_item_count
        ]_vars

\* C26 witness: the counter was counted up, reset by a changed count in
\* the next round, and counted up again in the round that ended the run.
C26_Witness ==
    /\ pc = "returned"
    /\ Len(items_seen) = 3
    /\ poll_count = 3
    /\ items_seen[1] = 0
    /\ items_seen[2] = 1
    /\ items_seen[3] = 1
    /\ stable_rounds = 1
    /\ last_item_count = 1

\* C27: the retry policy applies to streaming calls as to all others: a
\* streaming call of request() ends by raising only with its retry budget
\* used up, whether it met network exceptions or HTTP statuses >= 400, and
\* when it succeeds it returns the raw response, not unwrapped.
C27_StreamingRetried ==
    (rpc \in {"returned", "raised"} /\ stream) =>
        /\ rpc = "raised" => retries = max_retries
        /\ rpc = "raised" => attempts = max_retries + 1
        /\ rpc = "returned" =>
             /\ rret = [kind |-> "response", value |-> resp]
             /\ resp.status_code < 400

\* C30: a run of poll() makes at most max_poll_count fetches: the fetch
\* number max_poll_count, when it returns, ends the run (poll() returns
\* or raises), whatever status, item count and elapsed time it reports,
\* and no fetch number max_poll_count + 1 is made.
C30_AtMostMaxPollCountFetches ==
    pc # "idle" =>
        /\ poll_count <= self.max_poll_count
        /\ Len(items_seen) <= self.max_poll_count
        /\ Len(items_seen) = self.max_poll_count =>
               pc \in {"returned", "raised"}

\* C30 witness: a run whose fetches all returned used up the largest
\* round limit and was ended by it, with no items and before its timeout.
C30_Witness ==
    /\ pc = "returned"
    /\ self.max_poll_count = MaxPollCount
    /\ Len(items_seen) = MaxPollCount
    /\ poll_count = MaxPollCount
    /\ result[1].exit_reason = "round limit"
    /\ result[1].item_count = 0

\* C31: the poll_count of a returned PollingResult is the number of
\* fetches of the run, and poll() sleeps only between two fetches: there
\* is no sleep before the first fetch and none after the fetch that ended
\* the run.
C31_CountsFetchesSleepsBetween ==
    pc # "idle" =>
        /\ pc = "returned" =>
             /\ result[1].poll_count = Len(items_seen)
             /\ result[1].poll_count = poll_count
        /\ poll_count = 0 => slept = <<>>
        /\ pc = "loop" => Len(slept) = poll_count
        /\ pc \in {"sleep", "returned", "raised"} =>
               Len(slept) = poll_count - 1

\* C31 witness: a run of three fetches returned: it slept twice.
C31_Witness ==
    /\ pc = "returned"
    /\ result[1].poll_count = 3
    /\ Len(items_seen) = 3
    /\ Len(slept) = 2

\* The number of fetches at the end of the history that reported the
\* same item count as the last one.
RECURSIVE TrailingRun(_)
TrailingRun(seen) ==
    IF seen = <<>> THEN 0
    ELSE IF Len(seen) = 1 THEN 1
    ELSE IF seen[Len(seen)] # seen[Len(seen) - 1] THEN 1
    ELSE 1 + TrailingRun(SubSeq(seen, 1, Len(seen) - 1))

\* Every fetch of the history reported zero items.
AllZero(seen) == \A i \in DOMAIN seen : seen[i] = 0

\* C32: poll() exits as "stable" only after at least stable_rounds + 1
\* consecutive fetches reported the same positive item count: the fetch
\* on which a count first appears resets the stability counter to zero
\* and is not a stable round, while fetches reporting zero items advance
\* the counter from the first round on but never give the stable exit.
C32_StableNeedsOneMoreFetch ==
    pc # "idle" =>
        /\ stable_rounds = IF AllZero(items_seen)
                             THEN TrailingRun(items_seen)
                             ELSE TrailingRun(items_seen) - 1
        /\ (pc = "returned" /\ result[1].exit_reason = "stable") =>
             /\ result[1].item_count > 0
             /\ items_seen[Len(items_seen)] = result[1].item_count
             /\ TrailingRun(items_seen) >= self.stable_rounds + 1

\* C32 witness: a zero fetch advanced the counter without an exit, the
\* first positive count reset it, and the second fetch of that count gave
\* the stable exit of a poller with stable_rounds = 1.
C32_Witness ==
    /\ pc = "returned"
    /\ result[1].exit_reason = "stable"
    /\ self.stable_rounds = 1
    /\ items_seen = <<0, 1, 1>>
    /\ stable_rounds = 1

\* The URLs the items of a record carry, in order.
RECURSIVE UrlsOf(_)
UrlsOf(items) ==
    IF items = <<>> THEN <<>> ELSE ItemUrl(items[1]) \o UrlsOf(Tail(items))

\* C33: generate_images never returns an empty result: whatever the exit
\* reason of polling, when no URL can be extracted from the final record
\* it raises JimengAPIError, and otherwise it returns the URLs of that
\* record.
C33_NeverEmptyResult ==
    (pc = "returned" /\ gpc \in {"returned", "raised"}) =>
        IF UrlsOf(item_list) = <<>>
          THEN gpc = "raised" /\ gexc.type = "JimengAPIError"
          ELSE gpc = "returned" /\ urls = UrlsOf(item_list)

\* C34: one call of request() has one retry budget for both kinds of
\* failure: it makes at most MAX_RETRY_COUNT + 1 attempts, one delay
\* lies between two consecutive attempts and none elsewhere, and a
\* response with a status below 400 ends the call at once: a non-success
\* envelope is raised, not retried.
C34_SharedRetryBudget ==
    rpc # "idle" =>
        /\ attempts <= max_retries + 1
        /\ retries <= max_retries
        /\ rpc = "attempt" => (delays = attempts /\ retries = attempts)
        /\ rpc = "delay" => (delays = attempts - 1 /\ retries = attempts)
        /\ rpc \in {"returned", "raised"} =>
               (delays = attempts - 1 /\ retries = attempts - 1)
        /\ (resp.kind = "response" /\ resp.status_code < 400) =>
             /\ rpc \in {"returned", "raised"}
             /\ (~stream /\ resp.body.json /\ resp.body.ret = "1") =>
                    rpc = "raised"

\* C34 witness: the last attempt the largest budget allows was answered
\* with a status below 400 and a non-success envelope, which was raised.
C34_Witness ==
    /\ rpc = "raised"
    /\ ~stream
    /\ max_retries = MaxRetryCount
    /\ attempts = MaxRetryCount + 1
    /\ delays = MaxRetryCount
    /\ resp.kind = "response"
    /\ resp.status_code = 200
    /\ resp.body.ret = "1"

\* C35: generate_image_composition rejects an image list that is empty
\* or longer than 10 before any network call; it uploads the images one
\* at a time in input order; it submits, and fetches the status, only
\* after every image was uploaded; and when an upload fails, the images
\* after it are not uploaded and nothing is submitted or fetched.
C35_SubmitAfterAllUploads ==
    kpc # "idle" =>
        /\ (images = <<>> \/ Len(images) > 10) =>
             /\ kpc \in {"validate", "raised"}
             /\ upc = "idle"
             /\ ucalls = <<>>
             /\ tickets = 0
             /\ kcalls = <<>>
        /\ \A i, j \in DOMAIN ucalls :
               i < j => ucalls[i].asset <= ucalls[j].asset
        /\ \A i \in DOMAIN ucalls :
               /\ ucalls[i].asset \in 1..Len(images)
               /\ ucalls[i].asset > 1 => UploadSucceeded(ucalls[i].asset - 1)
        /\ kcalls # <<>> =>
             /\ kcalls[1] = "submit"
             /\ \A i \in 2..Len(kcalls) : kcalls[i] = "fetch"
             /\ upc = "uploaded"
             /\ Len(uploaded) = Len(images)
             /\ \A n \in 1..Len(images) : CallNames(n) = UploadOrder
        /\ upc = "raised" =>
             /\ kcalls = <<>>
             /\ kpc \in {"uploading", "raised"}
             /\ Len(uploaded) = asset - 1
             /\ \A i \in DOMAIN ucalls : ucalls[i].asset <= asset

\* C35 witness: every image of the longest list was uploaded, then the
\* request was submitted and its status fetched, and the urls returned.
C35_Witness ==
    /\ kpc = "returned"
    /\ Len(images) = MaxImages
    /\ Len(uploaded) = MaxImages
    /\ Len(kcalls) >= 2
    /\ kcalls[1] = "submit"
    /\ kcalls[2] = "fetch"

\* C36: after any sequence of the plugin's commands, whenever the
\* plugin's service is running the plugin's session list is non-empty;
\* a remove or a clear that takes the last session away from a running
\* service leaves the service stopped.
C36_RunningHasSessions ==
    /\ plugin_service.running => plugin_ids # <<>>
    /\ (/\ pcmd.name \in {"session remove", "session clear"}
        /\ pcmd.was_running
        /\ plugin_ids = <<>>) => ~plugin_service.running

\* A running service was stopped by the removal of the last session.
C36_Witness ==
    /\ pcmd = Command("session remove", TRUE)
    /\ plugin_ids = <<>>
    /\ plugin_service.exists
    /\ ~plugin_service.running

\* C37: a proxied operation of JimengAPIService called while the service
\* is not running raises JimengAPIError and does not reach the client; a
\* start() of a service without session ids raises JimengAPIError and
\* leaves the running flag as it was.
C37_NotRunningRaisesBeforeClient ==
    slast # <<>> =>
        LET c == slast[1]
        IN  /\ (c.method \in Proxies /\ ~c.was_running) =>
                /\ c.exc # <<>>
                /\ c.exc[1].type = "JimengAPIError"
                /\ ~c.reached
            /\ (c.method = "start" /\ service_ids = <<>>) =>
                /\ c.exc # <<>>
                /\ c.exc[1].type = "JimengAPIError"
                /\ running = c.was_running

\* generate_image was called on a stopped service that had run before.
C37_Witness ==
    /\ slast # <<>>
    /\ slast[1].method = "generate_image"
    /\ ~slast[1].was_running
    /\ ~slast[1].reached
    /\ Len(scalls) >= 2
    /\ scalls[Len(scalls)] = ServiceCall("stop", TRUE)

\* C38: under any interleaving of _choose_token, called with no override,
\* with remove_session_id and clear_session_ids in another thread,
\* _choose_token returns a token that was in the list when it was called
\* or raises the JimengAPIError of an empty list, and ends in no other
\* way.
C38_ChooseReturnsOrNoSession ==
    /\ tpc = "returned" => chosen[1] \in Range(called_ids)
    /\ tpc = "raised" => texc[1].type = "JimengAPIError"

\* Members of a list with one token removed, in their order.
Without(ids, t) == SelectSeq(ids, LAMBDA x : x # t)

\* C39: from a duplicate-free list, add_session_id, remove_session_id and
\* clear_session_ids keep the list duplicate-free and in insertion order:
\* an add of an absent token appends it, a remove takes the token out and
\* keeps the others in order, an add of a present token and a remove of an
\* absent one change nothing; every stored token is a supplied token,
\* prefix included, and the prefix is taken off in the cookie only.
C39_MembershipOnly ==
    /\ NoDuplicates(client_ids)
    /\ Range(client_ids) \subseteq Supplied
    /\ sess_last # <<>> =>
         LET c == sess_last[1]
         IN  /\ c.op = "add" =>
                  client_ids = IF c.token \in Range(c.before) THEN c.before
                               ELSE Append(c.before, c.token)
             /\ c.op = "remove" =>
                  client_ids = IF c.token \in Range(c.before)
                                 THEN Without(c.before, c.token)
                               ELSE c.before
             /\ c.op = "clear" => client_ids = <<>>
             /\ c.op = "cookie" =>
                  /\ client_ids = c.before
                  /\ c.token \in Range(client_ids)
                  /\ c.cookie[1].token = <<"", c.token[2]>>

\* A token with the prefix was added to a list, a cookie without the
\* prefix was made of it, and the list still holds it with the prefix.
C39_Witness ==
    /\ sess_last # <<>>
    /\ sess_last[1].op = "cookie"
    /\ IsUsToken(sess_last[1].token)
    /\ Len(client_ids) = 3
    /\ client_ids[3] = sess_last[1].token

=============================================================================
